---- MODULE Spec2Model ----
(***************************************************************************)
(* Timing reconciliation of the Suno lyric downloader                      *)
(* (src/src/scripts/contentScript.ts).                                     *)
(*                                                                         *)
(* Numbers.  A JavaScript number holding seconds is modelled in fixed      *)
(* point: an integer count of ticks, Tick ticks to the millisecond; a      *)
(* quotient is floored to the tick.  An optional / possibly non-finite     *)
(* number is a record [fin, v]: Num(n) is the finite number n, Undefined   *)
(* and NaN are the two non-finite forms (isFiniteNumber is false of both). *)
(*                                                                         *)
(* Text.  A string is a sequence of one-character tokens.  "CR" is the     *)
(* carriage return, "ZW" a zero-width character, " " white space.          *)
(*                                                                         *)
(* Four specifications.  Spec takes one input (aligned lines or the chosen *)
(* candidate itself, duration hint, envelope, reference text) through the  *)
(* stages of the pipeline: chooseTimingSource, relative expansion,         *)
(* normalizeTimings, repairMissingPromptLines.                             *)
(* SpecPage is the page: concurrent invocations of processPage, each       *)
(* awaiting fetchLyrics, the requests fetchLyrics awaits answered in any   *)
(* order and in any way, the shared lyricsCache, the cover overlays, and   *)
(* the page navigating and changing its cover images meanwhile.  An await  *)
(* on a value that is already there (a cache hit, clip metadata already    *)
(* fetched) is taken together with the step before it: only microtasks     *)
(* run in between.                                                         *)
(* SpecDebounce is the trigger of processPage: the debounced calls, the    *)
(* timeouts they set and clear, the MANUALLY_TRIGGER message, and time.    *)
(* SpecOverlay is one overlay: its format state, its two buttons and the   *)
(* files its download button hands over.                                   *)
(***************************************************************************)
EXTENDS Integers, Sequences, FiniteSets, TLC

VARIABLES
    pc,           \* position in the pipeline of one invocation
    aligned_lyrics, \* the AlignedLine sequence of the payload
    timingSource, \* 'words' or 'lines'; "none" when the input is the candidate itself
    chosen,       \* RawLineTiming sequence picked by chooseTimingSource
    durationS,    \* duration hint (optional number)
    waveformData, \* energy envelope: NoWaveform or the sequence of its samples
    prompt,       \* reference text: PromptAbsent or the sequence of its raw lines
    relative,     \* usedRelativeExpansion
    relativeMethod, \* "none", "linear" or "waveform"
    baseTimings,  \* the sequence handed to normalizeTimings
    normalized,   \* result of normalizeTimings
    repaired,     \* result of repairMissingPromptLines: [lines, insertedCount]
    url,          \* song id in window.location ("" when the page is no song page)
    session,      \* whether the __session cookie is set
    covers,       \* the cover-image parents that are in the document
    overlays,     \* per cover-image parent, the overlays appended to it
    lyricsCache,  \* the Map lyricsCache: per song id, its entry (type "none": no entry)
    inv,          \* the processPage invocations in progress
    now,          \* the time of the event loop
    timers,       \* the timeouts that are set and have not fired: [id, due]
    timeout,      \* the variable timeout of debounce: the id of the last timeout set (0: undefined)
    events,       \* the debounced calls and the processPage runs so far, each with its time
    toolsBox,     \* one overlay: its song id and lyrics, currentFileType and button labels
    downloads     \* the files handed to downloadFile so far

pipeVars == <<pc, aligned_lyrics, timingSource, chosen, durationS, waveformData, prompt, relative, relativeMethod,
              baseTimings, normalized, repaired>>
pageVars == <<url, session, covers, overlays, lyricsCache, inv>>
debounceVars == <<now, timers, timeout, events>>
overlayVars == <<toolsBox, downloads>>
vars == <<pc, aligned_lyrics, timingSource, chosen, durationS, waveformData, prompt, relative, relativeMethod,
          baseTimings, normalized, repaired,
          url, session, covers, overlays, lyricsCache, inv,
          now, timers, timeout, events, toolsBox, downloads>>

----------------------------------------------------------------------------
(* Bounds of the model *)

MaxLines == 2
MaxAlignedLines == 3
MaxInvocations == 2
MaxImages == 1

----------------------------------------------------------------------------
(* Resolution of the fixed-point numbers: ticks per millisecond *)

Tick == 4

Ms(n) == n * Tick

----------------------------------------------------------------------------
(* Program constants, in ticks *)

MinEndGap == Ms(20)
DefaultFallbackDuration == Ms(2500)
MillisecondScaleThreshold == Ms(1000 * 1000)
ZeroStartTolerance == Ms(1)
MonotonicTolerance == Ms(1)
RelativeMinDuration == Ms(10000)
RelativeMaxEnd == Ms(5000)
DefaultRelativeDuration == Ms(500)
DefaultSecondsPerUnit == Ms(220)
MinSecondsPerUnit == Ms(80)
MaxSecondsPerUnit == Ms(450)
MinSampleDuration == Ms(100)
StructureLineDuration == Ms(350)
MinMissingDuration == Ms(700)
MaxMissingDuration == Ms(5000)
minimumDuration == Ms(180)
MinStartDiff == Ms(50)
MinLeadWindow == Ms(1200)
LeadPerLine == Ms(900)
MinInteriorWindow == Ms(1000)

----------------------------------------------------------------------------
(* Optional numbers *)

Num(n) == [fin |-> TRUE, v |-> n]
Undefined == [fin |-> FALSE, v |-> 0]
NaN == [fin |-> FALSE, v |-> 1]

IsFiniteNumber(x) == x.fin

MinOf(S) == CHOOSE x \in S : \A y \in S : x <= y
MaxOf(S) == CHOOSE x \in S : \A y \in S : y <= x
Abs(x) == IF x < 0 THEN -x ELSE x
Range(s) == {s[i] : i \in DOMAIN s}

\* Math.round(value * 1000) / 1000: to the nearest millisecond, a half upwards
roundToMillis(value) == ((value + (Tick \div 2)) \div Tick) * Tick

\* floor(a * b / c) for a >= 0 and c > 0, without forming the product a * b:
\* MulDivRec gives q, r with a * b = q * c + r and 0 <= r < c, for b >= 0
RECURSIVE MulDivRec(_, _, _)
MulDivRec(a, b, c) ==
    IF b = 0 THEN [q |-> 0, r |-> 0]
    ELSE LET h == MulDivRec(a, b \div 2, c)
             t == 2 * h.r + (b % 2) * (a % c)
         IN [q |-> 2 * h.q + (b % 2) * (a \div c) + t \div c, r |-> t % c]

MulDiv(a, b, c) ==
    IF b >= 0 THEN MulDivRec(a, b, c).q
    ELSE -MulDivRec(a, -b, c).q - (IF MulDivRec(a, -b, c).r > 0 THEN 1 ELSE 0)

\* the element of a singleton; a stage's result is bound as the element of a
\* singleton so that the next stage receives it as a value, computed once
TheOne(S) == CHOOSE x \in S : TRUE

RECURSIVE SumSeq(_)
SumSeq(s) == IF s = <<>> THEN 0 ELSE Head(s) + SumSeq(Tail(s))

median(values) ==
    IF Len(values) = 0 THEN 0
    ELSE LET sorted == SortSeq(values, LAMBDA a, b : a < b)
             mid == Len(sorted) \div 2
         IN IF Len(sorted) % 2 = 0
            THEN (sorted[mid] + sorted[mid + 1]) \div 2
            ELSE sorted[mid + 1]

----------------------------------------------------------------------------
(* Scale inference *)

Scale(n, d) == [num |-> n, den |-> d]
ScaleCandidates ==
    <<Scale(1, 1), Scale(1, 10), Scale(1, 100), Scale(1, 1000), Scale(10, 1), Scale(100, 1)>>

ApplyScale(x, scale) == (x * scale.num) \div scale.den

\* a * b, or SatLimit when the product is beyond it
SatLimit == 2000 * 1000 * 1000
SatMul(a, b) == IF a > SatLimit \div b THEN SatLimit ELSE a * b

\* |maxTime * scale - durationS| / durationS, in thousandths of durationS divided
\* by durationS: the candidates compare as these numerators compare.  A product
\* beyond SatLimit is taken as SatLimit: such a candidate deviates by more than
\* 25%, the bound of acceptance, whatever its exact value.
ScaleDiff(maxTime, scale, d) ==
    Abs(SatMul(maxTime, scale.num * (1000 \div scale.den)) - 1000 * d)

\* the forEach of inferScale; bestDiff < 0 stands for +Infinity
RECURSIVE BestScale(_, _, _, _, _)
BestScale(maxTime, d, index, bestScale, bestDiff) ==
    IF index > Len(ScaleCandidates) THEN [scale |-> bestScale, diff |-> bestDiff]
    ELSE LET scale == ScaleCandidates[index]
             diff == ScaleDiff(maxTime, scale, d)
         IN IF bestDiff < 0 \/ diff < bestDiff
            THEN BestScale(maxTime, d, index + 1, scale, diff)
            ELSE BestScale(maxTime, d, index + 1, bestScale, bestDiff)

\* inferScale accepting the best candidate whatever its deviation
inferScale_NoAcceptanceBound(times, d) ==
    IF ~IsFiniteNumber(d) \/ d.v <= 0 \/ times = {}
    THEN IF times # {} /\ MaxOf(times) > MillisecondScaleThreshold
         THEN Scale(1, 1000)
         ELSE Scale(1, 1)
    ELSE BestScale(MaxOf(times), d.v, 1, Scale(1, 1), -1).scale

\* times: the set of finite timestamps (Math.max of none is -Infinity)
inferScale(times, d) ==
    IF ~IsFiniteNumber(d) \/ d.v <= 0 \/ times = {}
    THEN IF times # {} /\ MaxOf(times) > MillisecondScaleThreshold
         THEN Scale(1, 1000)
         ELSE Scale(1, 1)
    ELSE LET best == BestScale(MaxOf(times), d.v, 1, Scale(1, 1), -1)
         IN IF best.diff <= 250 * d.v THEN best.scale ELSE Scale(1, 1)

----------------------------------------------------------------------------
(* normalizeTimings *)

FiniteTimes(lines) ==
    {lines[i].start_s.v : i \in {j \in DOMAIN lines : IsFiniteNumber(lines[j].start_s)}}
    \cup {lines[i].end_s.v : i \in {j \in DOMAIN lines : IsFiniteNumber(lines[j].end_s)}}

ScaleOptional(x, scale) == IF IsFiniteNumber(x) THEN Num(ApplyScale(x.v, scale)) ELSE Undefined

ScaleLines(lines, scale) ==
    [i \in DOMAIN lines |->
        [text |-> lines[i].text,
         start_s |-> ScaleOptional(lines[i].start_s, scale),
         end_s |-> ScaleOptional(lines[i].end_s, scale)]]

StartOffset(scaledLines) ==
    LET starts == {scaledLines[i].start_s.v :
                      i \in {j \in DOMAIN scaledLines : IsFiniteNumber(scaledLines[j].start_s)}}
        minStart == IF starts # {} THEN MinOf(starts) ELSE 0
    IN IF minStart < 0 THEN -minStart ELSE 0

RECURSIVE PositiveDurations(_)
PositiveDurations(scaledLines) ==
    IF scaledLines = <<>> THEN <<>>
    ELSE LET line == Head(scaledLines)
             rest == PositiveDurations(Tail(scaledLines))
         IN IF IsFiniteNumber(line.start_s) /\ IsFiniteNumber(line.end_s)
               /\ line.end_s.v - line.start_s.v > 0
            THEN <<line.end_s.v - line.start_s.v>> \o rest
            ELSE rest

FallbackDuration(scaledLines) ==
    LET durations == PositiveDurations(scaledLines)
    IN IF Len(durations) > 0 THEN median(durations) ELSE DefaultFallbackDuration

\* the first finite start after position index, shifted by offset (Undefined if none)
NextStart(scaledLines, index, offset) ==
    LET later == {j \in DOMAIN scaledLines : j > index /\ IsFiniteNumber(scaledLines[j].start_s)}
    IN IF later = {} THEN Undefined ELSE Num(scaledLines[MinOf(later)].start_s.v + offset)

NormalizeLine_NoMonotonicClamp(scaledLines, index, offset, fallbackDuration, d, lastStart) ==
    LET line == scaledLines[index]
        start0 == IF IsFiniteNumber(line.start_s) THEN line.start_s.v + offset ELSE lastStart
        nextStart == NextStart(scaledLines, index, offset)
        end0 == IF IsFiniteNumber(line.end_s) /\ line.end_s.v + offset > start0
                THEN line.end_s.v + offset
                ELSE IF IsFiniteNumber(nextStart) /\ nextStart.v > start0
                     THEN nextStart.v
                     ELSE start0 + fallbackDuration
        start1 == IF IsFiniteNumber(d) /\ start0 > d.v THEN d.v ELSE start0
        end1 == IF IsFiniteNumber(d) /\ end0 > d.v THEN d.v ELSE end0
        end2 == IF end1 < start1 + MinEndGap THEN start1 + MinEndGap ELSE end1
    IN [start |-> start1, end |-> end2]

NormalizeLine_NoEndFill(scaledLines, index, offset, fallbackDuration, d, lastStart) ==
    LET line == scaledLines[index]
        rawStart == IF IsFiniteNumber(line.start_s) THEN line.start_s.v + offset ELSE lastStart
        start0 == IF rawStart < lastStart THEN lastStart ELSE rawStart
        end0 == IF IsFiniteNumber(line.end_s) /\ line.end_s.v + offset > start0
                THEN line.end_s.v + offset
                ELSE start0 + fallbackDuration
        start1 == IF IsFiniteNumber(d) /\ start0 > d.v THEN d.v ELSE start0
        end1 == IF IsFiniteNumber(d) /\ end0 > d.v THEN d.v ELSE end0
        end2 == IF end1 < start1 + MinEndGap THEN start1 + MinEndGap ELSE end1
    IN [start |-> start1, end |-> end2]

\* one iteration of the loop of normalizeTimings (lines 647-684): the start and end
\* of the line before they are rounded
NormalizeLine(scaledLines, index, offset, fallbackDuration, d, lastStart) ==
    LET line == scaledLines[index]
        rawStart == IF IsFiniteNumber(line.start_s) THEN line.start_s.v + offset ELSE lastStart
        start0 == IF rawStart < lastStart THEN lastStart ELSE rawStart
        nextStart == NextStart(scaledLines, index, offset)
        end0 == IF IsFiniteNumber(line.end_s) /\ line.end_s.v + offset > start0
                THEN line.end_s.v + offset
                ELSE IF IsFiniteNumber(nextStart) /\ nextStart.v > start0
                     THEN nextStart.v
                     ELSE start0 + fallbackDuration
        start1 == IF IsFiniteNumber(d) /\ start0 > d.v THEN d.v ELSE start0
        end1 == IF IsFiniteNumber(d) /\ end0 > d.v THEN d.v ELSE end0
        end2 == IF end1 < start1 + MinEndGap THEN start1 + MinEndGap ELSE end1
    IN [start |-> start1, end |-> end2]

\* the loop of normalizeTimings: the committed lines before rounding; lastStart is
\* the start committed for the line before
RECURSIVE NormalizeLoop(_, _, _, _, _, _)
NormalizeLoop(scaledLines, index, offset, fallbackDuration, d, lastStart) ==
    IF index > Len(scaledLines) THEN <<>>
    ELSE LET t == NormalizeLine(scaledLines, index, offset, fallbackDuration, d, lastStart)
         IN <<[text |-> scaledLines[index].text, start |-> t.start, end |-> t.end]>>
            \o NormalizeLoop(scaledLines, index + 1, offset, fallbackDuration, d, t.start)

\* the lines normalizeTimings scales (lines 623-628)
ScaledLines(lines, d) == ScaleLines(lines, inferScale(FiniteTimes(lines), d))

CommittedLines(lines, d) ==
    NormalizeLoop(ScaledLines(lines, d), 1, StartOffset(ScaledLines(lines, d)),
                  FallbackDuration(ScaledLines(lines, d)), d, 0)

normalizeTimings(lines, d) ==
    IF FiniteTimes(lines) = {} THEN <<>>
    ELSE LET committed == CommittedLines(lines, d)
         IN [i \in DOMAIN committed |->
                [text |-> committed[i].text,
                 start_s |-> roundToMillis(committed[i].start),
                 end_s |-> roundToMillis(committed[i].end)]]

----------------------------------------------------------------------------
(* Text *)

Whitespace == {" "}
Invisible == {"CR", "ZW"}
Punctuation == {".", ",", "!", "?", "-", "(", ")", "[", "]"}

toLowerCase(c) ==
    CASE c = "A" -> "a"
      [] c = "B" -> "b"
      [] c = "C" -> "c"
      [] c = "L" -> "l"
      [] OTHER -> c

RECURSIVE TrimLeft(_)
TrimLeft(t) == IF t # <<>> /\ Head(t) \in Whitespace THEN TrimLeft(Tail(t)) ELSE t

RECURSIVE TrimRight(_)
TrimRight(t) ==
    IF t # <<>> /\ t[Len(t)] \in Whitespace THEN TrimRight(SubSeq(t, 1, Len(t) - 1)) ELSE t

sanitizeLyricText(text) ==
    TrimRight(TrimLeft(SelectSeq(text, LAMBDA c : c \notin Invisible)))

normalizeLyricForMatch(text) ==
    LET lower == [i \in DOMAIN sanitizeLyricText(text) |-> toLowerCase(sanitizeLyricText(text)[i])]
    IN SelectSeq(lower, LAMBDA c : c \notin Whitespace /\ c \notin Punctuation)

Wrapped(t, open, close) == Len(t) >= 2 /\ t[1] = open /\ t[Len(t)] = close

isStructureLyricLine(text) ==
    LET cleaned == sanitizeLyricText(text)
    IN \/ Wrapped(cleaned, "[", "]")
       \/ Wrapped(cleaned, "(", ")")
       \/ Wrapped(cleaned, "FWLP", "FWRP")

lyricUnits(text) == Len(normalizeLyricForMatch(text))

\* String.prototype.includes
Includes(hay, needle) ==
    \E i \in 0..(Len(hay) - Len(needle)) : SubSeq(hay, i + 1, i + Len(needle)) = needle

----------------------------------------------------------------------------
(* Scoring, relative-timing detection and uniform expansion *)

RECURSIVE CountBreaks(_, _)
CountBreaks(lines, previousStart) ==
    IF lines = <<>> THEN 0
    ELSE LET line == Head(lines)
         IN IF ~IsFiniteNumber(line.start_s) THEN CountBreaks(Tail(lines), previousStart)
            ELSE (IF IsFiniteNumber(previousStart)
                     /\ line.start_s.v + MonotonicTolerance < previousStart.v
                  THEN 1 ELSE 0)
                 + CountBreaks(Tail(lines), line.start_s)

scoreTimings(lines) ==
    [validCount |-> Cardinality({i \in DOMAIN lines :
                        IsFiniteNumber(lines[i].start_s) /\ IsFiniteNumber(lines[i].end_s)}),
     monotonicBreaks |-> CountBreaks(lines, Undefined)]

looksLikeRelativeLineTimings(lines, d) ==
    LET startIdx == {i \in DOMAIN lines : IsFiniteNumber(lines[i].start_s)}
        endIdx == {i \in DOMAIN lines : IsFiniteNumber(lines[i].end_s)}
    IN IF startIdx = {} \/ endIdx = {} THEN FALSE
       ELSE LET zeroStarts == Cardinality({i \in startIdx : lines[i].start_s.v <= ZeroStartTolerance})
                mostlyZeroStarts == 5 * zeroStarts >= 4 * Cardinality(startIdx)
                uniqueStarts == Cardinality({roundToMillis(lines[i].start_s.v) : i \in startIdx})
                maxEnd == MaxOf({lines[i].end_s.v : i \in endIdx})
                monotonicBreaks == scoreTimings(lines).monotonicBreaks
                cap == IF RelativeMaxEnd < d.v \div 5 THEN RelativeMaxEnd ELSE d.v \div 5
            IN \/ IsFiniteNumber(d) /\ d.v > RelativeMinDuration /\ maxEnd < cap
               \/ mostlyZeroStarts /\ (monotonicBreaks > 0 \/ uniqueStarts <= 2)

\* the candidate weight of one line: 0 stands for undefined
RelativeCandidate(line) ==
    IF IsFiniteNumber(line.start_s) /\ IsFiniteNumber(line.end_s)
    THEN (IF line.end_s.v - line.start_s.v > 0 THEN line.end_s.v - line.start_s.v ELSE 0)
    ELSE IF IsFiniteNumber(line.end_s)
         THEN (IF line.end_s.v > 0 THEN line.end_s.v ELSE 0)
         ELSE 0

extractRelativeDurations(lines) ==
    LET candidates == [i \in DOMAIN lines |-> RelativeCandidate(lines[i])]
        validDurations == SelectSeq(candidates, LAMBDA c : c > 0)
        fallbackDuration == IF Len(validDurations) > 0 THEN median(validDurations)
                            ELSE DefaultRelativeDuration
    IN [i \in DOMAIN lines |-> IF candidates[i] > 0 THEN candidates[i] ELSE fallbackDuration]

\* value * scale, scale = durationS / totalRelative or 1
ScaledDuration(duration, d, totalRelative) ==
    IF IsFiniteNumber(d) /\ totalRelative > 0 THEN MulDiv(duration, d.v, totalRelative)
    ELSE duration

\* cursor is the sum of the scaled durations so far: the scale applied to the
\* sum of the durations so far (elapsed), so that no rounding accumulates
RECURSIVE ExpandLoop(_, _, _, _, _, _)
ExpandLoop(lines, durations, d, totalRelative, index, elapsed) ==
    IF index > Len(lines) THEN <<>>
    ELSE LET start == ScaledDuration(elapsed, d, totalRelative)
             end == ScaledDuration(elapsed + durations[index], d, totalRelative)
         IN <<[text |-> lines[index].text, start_s |-> Num(start), end_s |-> Num(end)]>>
            \o ExpandLoop(lines, durations, d, totalRelative, index + 1,
                          elapsed + durations[index])

expandRelativeTimings(lines, d) ==
    LET durations == extractRelativeDurations(lines)
    IN ExpandLoop(lines, durations, d, SumSeq(durations), 1, 0)

----------------------------------------------------------------------------
(* Rebuilding start/end pairs from starts *)

Max2(a, b) == IF a > b THEN a ELSE b
Min2(a, b) == IF a < b THEN a ELSE b

\* the reference text: absent (undefined / null) or the raw lines split(/\r?\n/) gives;
\* the empty string splits into one empty line
PromptAbsent == [present |-> FALSE, lines |-> <<>>]
PromptOf(rawLines) == [present |-> TRUE, lines |-> rawLines]
PromptFalsy(p) == ~p.present \/ p.lines = <<(<<>>)>>

parsePromptLines(p) ==
    SelectSeq([i \in DOMAIN p.lines |-> sanitizeLyricText(p.lines[i])], LAMBDA l : Len(l) > 0)

RECURSIVE SanitizeStarts(_, _, _, _)
SanitizeStarts(normalizedStarts, d, index, lastStart) ==
    IF index > Len(normalizedStarts) THEN <<>>
    ELSE LET line == normalizedStarts[index]
         IN IF line.text = <<>> THEN SanitizeStarts(normalizedStarts, d, index + 1, lastStart)
            ELSE LET start0 == Max2(0, line.start_s)
                     start1 == IF index > 1 /\ start0 < lastStart THEN lastStart ELSE start0
                     start2 == IF IsFiniteNumber(d) /\ start1 > d.v THEN d.v ELSE start1
                 IN <<[text |-> line.text, start_s |-> roundToMillis(start2)]>>
                    \o SanitizeStarts(normalizedStarts, d, index + 1, start2)

buildLineTimingsFromStarts(lines, d) ==
    IF Len(lines) = 0 THEN <<>>
    ELSE LET normalizedStarts ==
                 [i \in DOMAIN lines |->
                     [text |-> sanitizeLyricText(lines[i].text), start_s |-> lines[i].start_s]]
             diffs == [i \in 1..(Len(lines) - 1) |->
                          normalizedStarts[i + 1].start_s - normalizedStarts[i].start_s]
             startDiffs == SelectSeq(diffs, LAMBDA diff : diff > MinStartDiff)
             fallbackDuration == IF Len(startDiffs) > 0 THEN median(startDiffs)
                                 ELSE DefaultFallbackDuration
             sanitizedStarts == SanitizeStarts(normalizedStarts, d, 1, 0)
         IN [i \in DOMAIN sanitizedStarts |->
                LET line == sanitizedStarts[i]
                    end0 == IF i < Len(sanitizedStarts) THEN sanitizedStarts[i + 1].start_s
                            ELSE line.start_s + fallbackDuration
                    end1 == IF IsFiniteNumber(d) /\ end0 > d.v THEN d.v ELSE end0
                    end2 == IF end1 < line.start_s + MinEndGap THEN line.start_s + MinEndGap
                            ELSE end1
                IN [text |-> line.text, start_s |-> line.start_s, end_s |-> roundToMillis(end2)]]

----------------------------------------------------------------------------
(* Duration estimates of synthesized lines *)

estimateSecondsPerLyricUnit(alignedLines) ==
    LET lyric == SelectSeq(alignedLines, LAMBDA line : ~isStructureLyricLine(line.text))
        \* 0 stands for undefined
        perUnit == [i \in DOMAIN lyric |->
                       IF lyricUnits(lyric[i].text) <= 0
                          \/ lyric[i].end_s - lyric[i].start_s <= MinSampleDuration
                       THEN 0
                       ELSE (lyric[i].end_s - lyric[i].start_s) \div lyricUnits(lyric[i].text)]
        samples == SelectSeq(perUnit, LAMBDA value : value > 0)
    IN IF Len(samples) = 0 THEN DefaultSecondsPerUnit
       ELSE Min2(MaxSecondsPerUnit, Max2(MinSecondsPerUnit, median(samples)))

estimateMissingLineDuration(line, secondsPerUnit) ==
    IF isStructureLyricLine(line) THEN StructureLineDuration
    ELSE Min2(MaxMissingDuration,
              Max2(MinMissingDuration, Max2(1, lyricUnits(line)) * secondsPerUnit))

----------------------------------------------------------------------------
(* repairMissingPromptLines *)

MatchesCandidate(candidate, normalizedLine) ==
    \/ candidate = normalizedLine
    \/ Includes(candidate, normalizedLine)
    \/ Includes(normalizedLine, candidate)

\* the first prompt index (0-based) at or after promptCursor that matches, or -1
FindMatch(promptNormalized, normalizedLine, promptCursor) ==
    LET hits == {index \in promptCursor..(Len(promptNormalized) - 1) :
                    /\ promptNormalized[index + 1] # <<>>
                    /\ MatchesCandidate(promptNormalized[index + 1], normalizedLine)}
    IN IF normalizedLine = <<>> \/ hits = {} THEN -1 ELSE MinOf(hits)

RECURSIVE MatchLoop(_, _, _, _)
\* the matcher with promptCursor left where it is after a match (line 809 dropped)
RECURSIVE MatchLoop_CursorKept(_, _, _, _)
MatchLoop_CursorKept(alignedStarts, promptNormalized, position, promptCursor) ==
    IF position > Len(alignedStarts) THEN <<>>
    ELSE LET found == FindMatch(promptNormalized,
                                normalizeLyricForMatch(alignedStarts[position].text),
                                promptCursor)
         IN <<found>> \o MatchLoop_CursorKept(alignedStarts, promptNormalized, position + 1,
                                              promptCursor)

MatchLoop(alignedStarts, promptNormalized, position, promptCursor) ==
    IF position > Len(alignedStarts) THEN <<>>
    ELSE LET found == FindMatch(promptNormalized,
                                normalizeLyricForMatch(alignedStarts[position].text),
                                promptCursor)
         IN <<found>> \o MatchLoop(alignedStarts, promptNormalized, position + 1,
                                   IF found >= 0 THEN found + 1 ELSE promptCursor)

AlignedStarts(alignedLines) ==
    [i \in DOMAIN alignedLines |->
        [text |-> sanitizeLyricText(alignedLines[i].text), start_s |-> alignedLines[i].start_s]]

matchedPromptIndexes(alignedLines, p) ==
    LET promptLines == parsePromptLines(p)
    IN MatchLoop(AlignedStarts(alignedLines),
                 [i \in DOMAIN promptLines |-> normalizeLyricForMatch(promptLines[i])], 1, 0)

\* findIndex((index) => index >= 0), 1-based position; 0 when there is none
FirstMatchedLineIndex(matched) ==
    LET hits == {i \in DOMAIN matched : matched[i] >= 0}
    IN IF hits = {} THEN 0 ELSE MinOf(hits)

\* first pass over expectedDurations: shrink proportionally, floor minimumDuration
ShrinkToWindow(expectedDurations, available) ==
    LET totalDuration == SumSeq(expectedDurations)
    IN IF totalDuration > available
       THEN [i \in DOMAIN expectedDurations |->
                Max2(minimumDuration, (expectedDurations[i] * available) \div totalDuration)]
       ELSE expectedDurations

\* second pass: take the overflow from the room above minimumDuration
DeductOverflow(expectedDurations, available) ==
    LET totalDuration == SumSeq(expectedDurations)
        overflow == totalDuration - available
        rooms == [i \in DOMAIN expectedDurations |-> Max2(0, expectedDurations[i] - minimumDuration)]
        adjustable == SumSeq(rooms)
    IN IF totalDuration > available /\ adjustable > 0 /\ overflow > 0
       THEN [i \in DOMAIN expectedDurations |->
                expectedDurations[i] - Min2(rooms[i], (rooms[i] * overflow) \div adjustable)]
       ELSE expectedDurations

RECURSIVE PlaceLines(_, _, _, _)
PlaceLines(missingLines, expectedDurations, index, cursor) ==
    IF index > Len(missingLines) THEN <<>>
    ELSE <<[text |-> missingLines[index], start_s |-> cursor]>>
         \o PlaceLines(missingLines, expectedDurations, index + 1, cursor + expectedDurations[index])

\* pushMissingLines with the cursor at the start of the window instead of line 869
pushMissingLines_FromWindowStart(missingLines, windowStart, windowEnd, secondsPerUnit) ==
    IF Len(missingLines) = 0 THEN [pushed |-> <<>>, count |-> 0]
    ELSE LET available == Max2(0, windowEnd - windowStart)
         IN IF available <= minimumDuration
            THEN [pushed |-> <<[text |-> missingLines[Len(missingLines)],
                                start_s |-> Max2(0, windowEnd - minimumDuration)]>>,
                  count |-> 1]
            ELSE LET estimated == [i \in DOMAIN missingLines |->
                                      Max2(minimumDuration,
                                           estimateMissingLineDuration(missingLines[i], secondsPerUnit))]
                     expectedDurations == DeductOverflow(ShrinkToWindow(estimated, available), available)
                 IN [pushed |-> PlaceLines(missingLines, expectedDurations, 1, windowStart),
                     count |-> Len(missingLines)]

\* the entries pushMissingLines appends to target, and the count it returns
pushMissingLines(missingLines, windowStart, windowEnd, secondsPerUnit) ==
    IF Len(missingLines) = 0 THEN [pushed |-> <<>>, count |-> 0]
    ELSE LET available == Max2(0, windowEnd - windowStart)
         IN IF available <= minimumDuration
            THEN [pushed |-> <<[text |-> missingLines[Len(missingLines)],
                                start_s |-> Max2(0, windowEnd - minimumDuration)]>>,
                  count |-> 1]
            ELSE LET estimated == [i \in DOMAIN missingLines |->
                                      Max2(minimumDuration,
                                           estimateMissingLineDuration(missingLines[i], secondsPerUnit))]
                     expectedDurations == DeductOverflow(ShrinkToWindow(estimated, available), available)
                     cursor == Max2(windowStart, windowEnd - SumSeq(expectedDurations))
                 IN [pushed |-> PlaceLines(missingLines, expectedDurations, 1, cursor),
                     count |-> Len(missingLines)]

\* lines of the leading gap before the first matched line
MissingLeading(promptLines, line, currentMatchedPrompt) ==
    SelectSeq(SubSeq(promptLines, 1, currentMatchedPrompt),
              LAMBDA candidate : normalizeLyricForMatch(candidate) # normalizeLyricForMatch(line.text))

\* lines of an interior gap between two matched lines
MissingInterior(promptLines, line, rebuiltStarts, previousMatchedPrompt, currentMatchedPrompt) ==
    LET currentNorm == normalizeLyricForMatch(line.text)
        previousNorm == IF Len(rebuiltStarts) > 0
                        THEN normalizeLyricForMatch(rebuiltStarts[Len(rebuiltStarts)].text)
                        ELSE <<>>
    IN SelectSeq(SubSeq(promptLines, previousMatchedPrompt + 2, currentMatchedPrompt),
                 LAMBDA missingLine :
                     /\ Len(normalizeLyricForMatch(missingLine)) > 0
                     /\ normalizeLyricForMatch(missingLine) # previousNorm
                     /\ normalizeLyricForMatch(missingLine) # currentNorm)

\* one iteration of the rebuilding loop; st = [rebuiltStarts, previousMatchedPrompt, insertedCount]
RepairStep(alignedStarts, matched, promptLines, secondsPerUnit, index, st) ==
    LET line == alignedStarts[index]
        currentMatchedPrompt == matched[index]
        missingLeading ==
            IF index = FirstMatchedLineIndex(matched) /\ currentMatchedPrompt > 0
            THEN MissingLeading(promptLines, line, currentMatchedPrompt)
            ELSE <<>>
        lead == pushMissingLines(missingLeading,
                    Max2(0, line.start_s - Max2(MinLeadWindow, Len(missingLeading) * LeadPerLine)),
                    line.start_s, secondsPerUnit)
        afterLead == st.rebuiltStarts \o lead.pushed
        missingLines ==
            IF currentMatchedPrompt >= 0 /\ st.previousMatchedPrompt >= 0
               /\ currentMatchedPrompt - st.previousMatchedPrompt > 1
            THEN MissingInterior(promptLines, line, afterLead,
                                 st.previousMatchedPrompt, currentMatchedPrompt)
            ELSE <<>>
        windowStart ==
            IF Len(afterLead) > 0 THEN afterLead[Len(afterLead)].start_s
            ELSE Max2(0, line.start_s - Max2(MinInteriorWindow, Len(missingLines) * LeadPerLine))
        interior == pushMissingLines(missingLines, windowStart, line.start_s, secondsPerUnit)
    IN [rebuiltStarts |-> afterLead \o interior.pushed \o <<line>>,
        previousMatchedPrompt |->
            IF currentMatchedPrompt >= 0 THEN currentMatchedPrompt ELSE st.previousMatchedPrompt,
        insertedCount |-> st.insertedCount + lead.count + interior.count]

RECURSIVE RepairLoop(_, _, _, _, _, _)
RepairLoop(alignedStarts, matched, promptLines, secondsPerUnit, index, st) ==
    IF index > Len(alignedStarts) THEN st
    ELSE RepairLoop(alignedStarts, matched, promptLines, secondsPerUnit, index + 1,
                    RepairStep(alignedStarts, matched, promptLines, secondsPerUnit, index, st))

Rebuild(alignedLines, p) ==
    RepairLoop(AlignedStarts(alignedLines), matchedPromptIndexes(alignedLines, p),
               parsePromptLines(p), estimateSecondsPerLyricUnit(alignedLines), 1,
               [rebuiltStarts |-> <<>>, previousMatchedPrompt |-> -1, insertedCount |-> 0])

repairMissingPromptLines_AlwaysRebuild(alignedLines, p, d) ==
    IF PromptFalsy(p) \/ Len(alignedLines) < 2
    THEN [lines |-> alignedLines, insertedCount |-> 0]
    ELSE IF Len(parsePromptLines(p)) = 0
    THEN [lines |-> alignedLines, insertedCount |-> 0]
    ELSE IF FirstMatchedLineIndex(matchedPromptIndexes(alignedLines, p)) = 0
    THEN [lines |-> alignedLines, insertedCount |-> 0]
    ELSE [lines |-> buildLineTimingsFromStarts(Rebuild(alignedLines, p).rebuiltStarts, d),
          insertedCount |-> Rebuild(alignedLines, p).insertedCount]

repairMissingPromptLines_NoLengthGuard(alignedLines, p, d) ==
    IF PromptFalsy(p)
    THEN [lines |-> alignedLines, insertedCount |-> 0]
    ELSE IF Len(parsePromptLines(p)) = 0
    THEN [lines |-> alignedLines, insertedCount |-> 0]
    ELSE IF FirstMatchedLineIndex(matchedPromptIndexes(alignedLines, p)) = 0
    THEN [lines |-> alignedLines, insertedCount |-> 0]
    ELSE LET rebuilt == Rebuild(alignedLines, p)
         IN IF rebuilt.insertedCount = 0
            THEN [lines |-> alignedLines, insertedCount |-> 0]
            ELSE [lines |-> buildLineTimingsFromStarts(rebuilt.rebuiltStarts, d),
                  insertedCount |-> rebuilt.insertedCount]

repairMissingPromptLines(alignedLines, p, d) ==
    IF PromptFalsy(p) \/ Len(alignedLines) < 2
    THEN [lines |-> alignedLines, insertedCount |-> 0]
    ELSE IF Len(parsePromptLines(p)) = 0
    THEN [lines |-> alignedLines, insertedCount |-> 0]
    ELSE IF FirstMatchedLineIndex(matchedPromptIndexes(alignedLines, p)) = 0
    THEN [lines |-> alignedLines, insertedCount |-> 0]
    ELSE LET rebuilt == Rebuild(alignedLines, p)
         IN IF rebuilt.insertedCount = 0
            THEN [lines |-> alignedLines, insertedCount |-> 0]
            ELSE [lines |-> buildLineTimingsFromStarts(rebuilt.rebuiltStarts, d),
                  insertedCount |-> rebuilt.insertedCount]

----------------------------------------------------------------------------
(* The two timing candidates and the choice between them *)

\* an AlignedLine is [text, word, start_s, end_s, words]; the empty string stands
\* for an absent text or word too (both are falsy); an AlignedToken is
\* [hasText, text, word, start_s, end_s]
TokenText(token) == IF token.hasText THEN token.text ELSE token.word

RECURSIVE JoinTokens(_)
JoinTokens(words) ==
    IF words = <<>> THEN <<>> ELSE TokenText(Head(words)) \o JoinTokens(Tail(words))

getLineText(line) ==
    sanitizeLyricText(IF line.text # <<>> THEN line.text
                      ELSE IF line.word # <<>> THEN line.word
                      ELSE JoinTokens(line.words))

FiniteOrUndefined(x) == IF IsFiniteNumber(x) THEN x ELSE Undefined

deriveTimingsFromWords(lines) ==
    [i \in DOMAIN lines |->
        LET wordStarts == {lines[i].words[k].start_s.v :
                              k \in {j \in DOMAIN lines[i].words :
                                        IsFiniteNumber(lines[i].words[j].start_s)}}
            wordEnds == {lines[i].words[k].end_s.v :
                            k \in {j \in DOMAIN lines[i].words :
                                      IsFiniteNumber(lines[i].words[j].end_s)}}
        IN IF wordStarts # {} /\ wordEnds # {}
           THEN [text |-> getLineText(lines[i]),
                 start_s |-> Num(MinOf(wordStarts)), end_s |-> Num(MaxOf(wordEnds))]
           ELSE [text |-> getLineText(lines[i]),
                 start_s |-> FiniteOrUndefined(lines[i].start_s),
                 end_s |-> FiniteOrUndefined(lines[i].end_s)]]

deriveTimingsFromLines(lines) ==
    [i \in DOMAIN lines |->
        [text |-> getLineText(lines[i]),
         start_s |-> FiniteOrUndefined(lines[i].start_s),
         end_s |-> FiniteOrUndefined(lines[i].end_s)]]

\* ratio >= 0.7 for ratio = validCount / total
LooksGood(score, total) == 10 * score.validCount >= 7 * total /\ score.monotonicBreaks <= 1

\* chooseTimingSource taking the token-derived candidate whenever it looks good
chooseTimingSource_WordsWhenGood(wordTimings, lineTimings) ==
    LET wordScore == scoreTimings(wordTimings)
        lineScore == scoreTimings(lineTimings)
        total == Max2(Len(wordTimings), 1)
        wordLooksGood == LooksGood(wordScore, total)
        lineLooksGood == LooksGood(lineScore, total)
    IN IF wordLooksGood
       THEN [source |-> "words", timings |-> wordTimings, score |-> wordScore]
       ELSE IF lineLooksGood \/ lineScore.validCount >= wordScore.validCount
       THEN [source |-> "lines", timings |-> lineTimings, score |-> lineScore]
       ELSE [source |-> "words", timings |-> wordTimings, score |-> wordScore]

chooseTimingSource(wordTimings, lineTimings) ==
    LET wordScore == scoreTimings(wordTimings)
        lineScore == scoreTimings(lineTimings)
        total == Max2(Len(wordTimings), 1)
        wordLooksGood == LooksGood(wordScore, total)
        lineLooksGood == LooksGood(lineScore, total)
    IN IF wordLooksGood
          /\ (~lineLooksGood \/ wordScore.monotonicBreaks <= lineScore.monotonicBreaks)
       THEN [source |-> "words", timings |-> wordTimings, score |-> wordScore]
       ELSE IF lineLooksGood \/ lineScore.validCount >= wordScore.validCount
       THEN [source |-> "lines", timings |-> lineTimings, score |-> lineScore]
       ELSE [source |-> "words", timings |-> wordTimings, score |-> wordScore]

----------------------------------------------------------------------------
(* Envelope-guided expansion.  An amplitude of the envelope is an integer; a    *)
(* smoothed amplitude is kept in 60ths (smoothSeries(., 2) averages 1 to 5      *)
(* samples), a percentile in 1200ths, a threshold in 120000ths, so that every   *)
(* comparison the code makes on them is exact.  A weight is kept in 200ths      *)
(* (0.005 is one unit), and Math.pow(lifted, 1.25) is lifted times the floored  *)
(* square root of the floored square root of lifted.                            *)

NoWaveform == [present |-> FALSE, samples |-> <<>>]
Waveform(samples) == [present |-> TRUE, samples |-> samples]

minStep == Ms(20)

\* percentile(values, p20 / 20), times 20
percentile(values, p20) ==
    IF Len(values) = 0 THEN 0
    ELSE LET sorted == SortSeq(values, LAMBDA a, b : a < b)
             position20 == (Len(sorted) - 1) * p20
             lower == position20 \div 20
             upper == (position20 + 19) \div 20
             fraction20 == position20 % 20
         IN IF p20 <= 0 THEN 20 * sorted[1]
            ELSE IF p20 >= 20 THEN 20 * sorted[Len(sorted)]
            ELSE sorted[lower + 1] * (20 - fraction20) + sorted[upper + 1] * fraction20

\* smoothSeries(values, radius), times 60
smoothSeries(values, radius) ==
    IF radius <= 0 \/ Len(values) = 0 THEN [index \in DOMAIN values |-> 60 * values[index]]
    ELSE [index \in DOMAIN values |->
             LET left == Max2(1, index - radius)
                 right == Min2(Len(values), index + radius)
             IN (60 * SumSeq(SubSeq(values, left, right))) \div (right - left + 1)]

\* the while loop of lowerBound, on positions counted from 1
RECURSIVE lowerBound(_, _, _, _)
lowerBound(sortedValues, target, left, right) ==
    IF left >= right THEN left
    ELSE LET middle == (left + right) \div 2
         IN IF sortedValues[middle] < target
            THEN lowerBound(sortedValues, target, middle + 1, right)
            ELSE lowerBound(sortedValues, target, left, middle)

\* floor of the square root of n, sought between lo and hi
RECURSIVE SqrtBetween(_, _, _)
SqrtBetween(n, lo, hi) ==
    IF lo >= hi THEN lo
    ELSE LET mid == (lo + hi + 1) \div 2
         IN IF mid <= n \div mid THEN SqrtBetween(n, mid, hi) ELSE SqrtBetween(n, lo, mid - 1)

\* 0.005 + Math.pow(lifted, 1.25), lifted and the weight in 200ths
EmphasisWeight(lifted) ==
    LET root == SqrtBetween(SatMul(lifted, 200), 0, 46340)
        fourthRoot == SqrtBetween(SatMul(root, 200), 0, 46340)
    IN IF lifted = 0 THEN 1 ELSE 1 + SatMul(lifted, Max2(fourthRoot, 1)) \div 200

RECURSIVE RunningSums(_, _)
RunningSums(s, acc) ==
    IF s = <<>> THEN <<>> ELSE <<acc + Head(s)>> \o RunningSums(Tail(s), acc + Head(s))

\* the loop of lines 462-467 from position index on
RECURSIVE EnforceMinStep(_, _)
EnforceMinStep(boundaries, index) ==
    IF index > Len(boundaries) THEN boundaries
    ELSE EnforceMinStep(
             IF boundaries[index] < boundaries[index - 1] + minStep
             THEN [boundaries EXCEPT ![index] = boundaries[index - 1] + minStep]
             ELSE boundaries,
             index + 1)

\* the loop of lines 477-482 from position index on
RECURSIVE RescaleBoundaries(_, _, _, _)
RescaleBoundaries(boundaries, targetRange, currentRange, index) ==
    IF index > Len(boundaries) THEN boundaries
    ELSE LET scaled == boundaries[1] + MulDiv(boundaries[index] - boundaries[1],
                                              targetRange, currentRange)
         IN RescaleBoundaries(
                [boundaries EXCEPT ![index] = Max2(scaled, boundaries[index - 1] + minStep)],
                targetRange, currentRange, index + 1)

\* lines 469-485: fit the timeline into the window when it ends after it
FitToWindow(boundaries, windowEndTime) ==
    LET timelineEnd == boundaries[Len(boundaries)]
    IN IF timelineEnd > windowEndTime
       THEN [RescaleBoundaries(boundaries, Max2(windowEndTime - boundaries[1], minStep),
                               Max2(timelineEnd - boundaries[1], minStep), 2)
                EXCEPT ![Len(boundaries)] = windowEndTime]
       ELSE boundaries

\* lines 433-459: the boundaries before the minimum step is enforced; window =
\* [startIndex, endIndex, totalBuckets], weights in 200ths
WaveformBoundaries(durations, weights, window, d) ==
    LET totalRelative == SumSeq(durations)
        relativeCursor == RunningSums(durations, 0)
        cumulativeWeight == SumSeq(weights)
        cumulative == [k \in DOMAIN weights |-> totalRelative * RunningSums(weights, 0)[k]]
        windowDenominator == Max2(Len(weights) - 1, 1)
        Boundary(i) ==
            LET target == relativeCursor[i] * cumulativeWeight
                bucketIndex == lowerBound(cumulative, target, 1, Len(cumulative)) - 1
                previousValue == IF bucketIndex > 0 THEN cumulative[bucketIndex] ELSE 0
                currentValue == cumulative[bucketIndex + 1]
                span == IF currentValue > previousValue THEN currentValue - previousValue ELSE 1
                part == IF currentValue > previousValue THEN target - previousValue ELSE 0
                waveformIndex == Min2(bucketIndex * span + part, windowDenominator * span)
            IN MulDiv(window.startIndex * span + waveformIndex, d, window.totalBuckets * span)
    IN <<MulDiv(window.startIndex, d, window.totalBuckets)>>
       \o [i \in 1..(Len(durations) - 1) |-> Boundary(i)]
       \o <<MulDiv(window.endIndex, d, window.totalBuckets)>>

\* ActivityWindow without the abort of line 419
ActivityWindow_AnyWidth(smoothed, low, high, d) ==
    LET active == {i \in DOMAIN smoothed : 2000 * smoothed[i] >= 78 * low + 22 * high}
        firstActiveIndex == IF active = {} THEN -1 ELSE MinOf(active) - 1
        lastActiveIndex == IF active = {} THEN -1 ELSE MaxOf(active) - 1
        totalBuckets == Max2(Len(smoothed) - 1, 1)
        leadInBuckets ==
            Min2(firstActiveIndex,
                 Max2(1, (2 * Ms(200) * totalBuckets + d) \div (2 * d)))
        leadOutBuckets == Max2(1, (2 * Ms(300) * totalBuckets + d) \div (2 * d))
        windowStartIndex == Max2(0, firstActiveIndex - leadInBuckets)
        windowEndIndex == Min2(Len(smoothed) - 1, lastActiveIndex + leadOutBuckets)
    IN IF firstActiveIndex < 0 \/ lastActiveIndex <= firstActiveIndex
       THEN [found |-> FALSE, startIndex |-> 0, endIndex |-> 0, totalBuckets |-> totalBuckets]
       ELSE [found |-> TRUE,
             startIndex |-> windowStartIndex, endIndex |-> windowEndIndex,
             totalBuckets |-> totalBuckets]

\* ActivityWindow with the abort of line 419 at fewer than 5 instead of 8
ActivityWindow_MinFive(smoothed, low, high, d) ==
    LET active == {i \in DOMAIN smoothed : 2000 * smoothed[i] >= 78 * low + 22 * high}
        firstActiveIndex == IF active = {} THEN -1 ELSE MinOf(active) - 1
        lastActiveIndex == IF active = {} THEN -1 ELSE MaxOf(active) - 1
        totalBuckets == Max2(Len(smoothed) - 1, 1)
        leadInBuckets ==
            Min2(firstActiveIndex,
                 Max2(1, (2 * Ms(200) * totalBuckets + d) \div (2 * d)))
        leadOutBuckets == Max2(1, (2 * Ms(300) * totalBuckets + d) \div (2 * d))
        windowStartIndex == Max2(0, firstActiveIndex - leadInBuckets)
        windowEndIndex == Min2(Len(smoothed) - 1, lastActiveIndex + leadOutBuckets)
    IN IF firstActiveIndex < 0 \/ lastActiveIndex <= firstActiveIndex
       THEN [found |-> FALSE, startIndex |-> 0, endIndex |-> 0, totalBuckets |-> totalBuckets]
       ELSE [found |-> windowEndIndex - windowStartIndex >= 5,
             startIndex |-> windowStartIndex, endIndex |-> windowEndIndex,
             totalBuckets |-> totalBuckets]

\* lines 391-421: the window of activity of the envelope, or none; the smoothed
\* series in 60ths, low and high in 1200ths; the margins are 0.2 s and 0.3 s worth
\* of buckets, Math.round being the floor of the value plus one half
ActivityWindow(smoothed, low, high, d) ==
    LET active == {i \in DOMAIN smoothed : 2000 * smoothed[i] >= 78 * low + 22 * high}
        firstActiveIndex == IF active = {} THEN -1 ELSE MinOf(active) - 1
        lastActiveIndex == IF active = {} THEN -1 ELSE MaxOf(active) - 1
        totalBuckets == Max2(Len(smoothed) - 1, 1)
        leadInBuckets ==
            Min2(firstActiveIndex,
                 Max2(1, (2 * Ms(200) * totalBuckets + d) \div (2 * d)))
        leadOutBuckets == Max2(1, (2 * Ms(300) * totalBuckets + d) \div (2 * d))
        windowStartIndex == Max2(0, firstActiveIndex - leadInBuckets)
        windowEndIndex == Min2(Len(smoothed) - 1, lastActiveIndex + leadOutBuckets)
    IN IF firstActiveIndex < 0 \/ lastActiveIndex <= firstActiveIndex
       THEN [found |-> FALSE, startIndex |-> 0, endIndex |-> 0, totalBuckets |-> totalBuckets]
       ELSE [found |-> windowEndIndex - windowStartIndex >= 8,
             startIndex |-> windowStartIndex, endIndex |-> windowEndIndex,
             totalBuckets |-> totalBuckets]

\* lines 394-497, from the smoothed series (in 60ths) on; every stage is bound
\* as a value before the next one reads it
WaveformExpansion(lines, d, smoothed, uniform) ==
    LET positive == SelectSeq(smoothed, LAMBDA value : value > 0)
        durations == extractRelativeDurations(lines)
        Weights(low, high, window) ==
            [k \in 1..(window.endIndex - window.startIndex + 1) |->
                EmphasisWeight(
                    MulDiv(200,
                           Max2(2000 * smoothed[window.startIndex + k] - (85 * low + 15 * high), 0),
                           Max2(85 * (high - low), 1)))]
        Boundaries(weights, window) ==
            FitToWindow(
                TheOne({EnforceMinStep(raw, 2) :
                           raw \in {WaveformBoundaries(durations, weights, window, d)}}),
                MulDiv(window.endIndex, d, window.totalBuckets))
        Timed(boundaries) ==
            [lines |-> [index \in DOMAIN lines |->
                           [text |-> lines[index].text,
                            start_s |-> Num(boundaries[index]),
                            end_s |-> Num(Max2(boundaries[index + 1],
                                               boundaries[index] + minStep))]],
             usedWaveform |-> TRUE]
    IN IF Len(positive) < 2 THEN uniform
       ELSE TheOne({
                IF ~window.found THEN uniform
                ELSE TheOne({Timed(boundaries) :
                                boundaries \in
                                    {Boundaries(weights, window) :
                                        weights \in {Weights(levels[1], levels[2], window)}}}) :
                window \in {ActivityWindow(smoothed, levels[1], levels[2], d) :
                               levels \in {<<percentile(positive, 4),
                                              percentile(positive, 17)>>}},
                levels \in {<<percentile(positive, 4), percentile(positive, 17)>>}})

alignRelativeTimingsWithWaveform(lines, d, envelope) ==
    LET uniform == [lines |-> expandRelativeTimings(lines, d), usedWaveform |-> FALSE]
    IN IF ~envelope.present \/ Len(envelope.samples) < 2 \/ ~IsFiniteNumber(d) \/ d.v <= 0
       THEN uniform
       ELSE IF SumSeq(extractRelativeDurations(lines)) <= 0 THEN uniform
       ELSE TheOne({WaveformExpansion(lines, d.v, smoothed, uniform) :
                       smoothed \in {smoothSeries([i \in DOMAIN envelope.samples |->
                                                     Max2(envelope.samples[i], 0)], 2)}})

----------------------------------------------------------------------------
(* buildAlignedLyricsTimings *)

\* lines 959-971: the base timings and relativeMethod
ExpandIfRelative(lines, d, envelope) ==
    IF looksLikeRelativeLineTimings(lines, d)
    THEN IF IsFiniteNumber(d) /\ d.v > 0
         THEN LET aligned == alignRelativeTimingsWithWaveform(lines, d, envelope)
              IN [lines |-> aligned.lines,
                  relativeMethod |-> IF aligned.usedWaveform THEN "waveform" ELSE "linear"]
         ELSE [lines |-> expandRelativeTimings(lines, d), relativeMethod |-> "linear"]
    ELSE [lines |-> lines, relativeMethod |-> "none"]

\* buildAlignedLyricsTimings from the chosen candidate on (lines 959-983)
TimingsFromChosen(lines, d, envelope) ==
    TheOne({normalizeTimings(expanded.lines, d) :
               expanded \in {ExpandIfRelative(lines, d, envelope)}})

buildAlignedLyricsTimings(alignedLyrics, d, envelope) ==
    TheOne({TimingsFromChosen(selected.timings, d, envelope) :
               selected \in {chooseTimingSource(wordTimings, lineTimings) :
                                 wordTimings \in {deriveTimingsFromWords(alignedLyrics)},
                                 lineTimings \in {deriveTimingsFromLines(alignedLyrics)}}})

\* fetchLyrics, lines 1089-1105, from the chosen candidate on: the timing pipeline
\* followed by the repair
Pipeline(lines, d, envelope, p) ==
    TheOne({repairMissingPromptLines(timingLines, p, d) :
               timingLines \in {TimingsFromChosen(lines, d, envelope)}})

NoRepair == [lines |-> <<>>, insertedCount |-> 0]

----------------------------------------------------------------------------
(* Duration hints of the API payloads *)

\* value.trim().split(':').map(Number): the parts are numbers or NaN
parseDurationFormatted(parts) ==
    IF \E k \in DOMAIN parts : ~IsFiniteNumber(parts[k]) THEN Undefined
    ELSE IF Len(parts) = 2 THEN Num(parts[1].v * 60 + parts[2].v)
    ELSE IF Len(parts) = 3 THEN Num(parts[1].v * 3600 + parts[2].v * 60 + parts[3].v)
    ELSE Undefined

\* a source is [isObject, duration_s, duration, metadata_duration,
\* metadata_duration_s, duration_formatted]; duration_formatted is the sequence of
\* the parts of metadata.duration_formatted, <<>> when that is not a string
FirstFinite(candidates) ==
    LET finite == SelectSeq(candidates, IsFiniteNumber)
    IN IF finite = <<>> THEN Undefined ELSE Head(finite)

extractDurationSeconds(source) ==
    IF ~source.isObject THEN Undefined
    ELSE LET candidate == FirstFinite(<<source.duration_s, source.duration,
                                        source.metadata_duration,
                                        source.metadata_duration_s>>)
         IN IF IsFiniteNumber(candidate) THEN candidate
            ELSE IF source.duration_formatted # <<>>
            THEN parseDurationFormatted(source.duration_formatted)
            ELSE Undefined

----------------------------------------------------------------------------
(* The page: lyricsCache, fetchLyrics, processPage and the cover overlays *)

Songs == {"s1", "s2"}
Parents == 1..MaxImages
Invocations == 1..MaxInvocations

\* a LyricsData value; type "none" stands for no cache entry, "null" for the null
\* that fetchLyrics returns
LyricsData(type, lines, text) == [type |-> type, lines |-> lines, text |-> text]
NoEntry == LyricsData("none", <<>>, PromptAbsent)
NullLyrics == LyricsData("null", <<>>, PromptAbsent)

Source(duration_s, metadata_duration, duration_formatted) ==
    [isObject |-> TRUE, duration_s |-> duration_s, duration |-> Undefined,
     metadata_duration |-> metadata_duration, metadata_duration_s |-> Undefined,
     duration_formatted |-> duration_formatted]
NullSource ==
    [isObject |-> FALSE, duration_s |-> Undefined, duration |-> Undefined,
     metadata_duration |-> Undefined, metadata_duration_s |-> Undefined,
     duration_formatted |-> <<>>]

AlignedLine(text, start_s, end_s, words) ==
    [text |-> text, word |-> <<>>, start_s |-> start_s, end_s |-> end_s, words |-> words]
AlignedToken(text, start_s, end_s) ==
    [hasText |-> TRUE, text |-> text, word |-> <<>>, start_s |-> start_s, end_s |-> end_s]

\* the JSON bodies an aligned_lyrics request may be answered with
AlignedPayloads ==
    << [aligned_lyrics |-> <<>>, waveform_data |-> NoWaveform,
        source |-> Source(Num(Ms(3000)), Undefined, <<>>)],
       [aligned_lyrics |-> <<AlignedLine(<<"a">>, Undefined, NaN, <<>>),
                             AlignedLine(<<>>, NaN, Undefined,
                                         <<AlignedToken(<<"c">>, Undefined, NaN)>>)>>,
        waveform_data |-> NoWaveform,
        source |-> Source(Undefined, Num(Ms(3000)), <<>>)],
       [aligned_lyrics |-> <<AlignedLine(<<"a">>, Num(0), Num(Ms(1000)), <<>>),
                             AlignedLine(<<>>, Undefined, Undefined,
                                         <<AlignedToken(<<"c">>, Num(Ms(2000)), Num(Ms(2500))),
                                           AlignedToken(<<" ", "a">>, Num(Ms(2500)), Num(Ms(2990)))>>)>>,
        waveform_data |-> Waveform(<<0, 5, 5, 0>>),
        source |-> Source(Undefined, Undefined, <<>>)] >>

\* the JSON bodies a clip request may be answered with
ClipPayloads ==
    << [prompt |-> PromptOf(<<<<"a">>, <<"b">>, <<"c">>>>),
        source |-> Source(Undefined, Undefined, <<Num(0), Num(Ms(3000))>>)],
       [prompt |-> PromptOf(<<(<<>>)>>),
        source |-> Source(Undefined, Undefined, <<NaN, Num(Ms(3000))>>)] >>

\* answers of the aligned_lyrics request: -1 the fetch or its json() throws,
\* 0 a response that is not ok, k > 0 the body AlignedPayloads[k]
AlignedResponses == -1..Len(AlignedPayloads)
\* results of fetchClipMetadata: 0 null, k > 0 the body ClipPayloads[k]
ClipResponses == 0..Len(ClipPayloads)

ClipSource(clip) == IF clip = 0 THEN NullSource ELSE ClipPayloads[clip].source
\* clip?.metadata?.prompt
ClipPrompt(clip) == IF clip = 0 THEN PromptAbsent ELSE ClipPayloads[clip].prompt

\* an invocation of processPage: its position, its locals and those of the
\* fetchLyrics call it awaits; stored and injected record what the invocation
\* wrote to lyricsCache and how many overlays it appended
IdleInvocation ==
    [pc |-> "idle", songId |-> "", imageElements |-> {}, aligned |-> 0,
     clipData |-> 0, durationS |-> Undefined, timing |-> <<>>,
     lyrics |-> NullLyrics, stored |-> "none", injected |-> 0]

\* processPage returns: what remains is the record of what the invocation did
Returned(rec, injected) ==
    [IdleInvocation EXCEPT !.pc = "done", !.aligned = rec.aligned,
                           !.stored = rec.stored, !.injected = injected]

\* fetchLyrics returns: its locals are gone, processPage resumes with the result
FetchReturned(rec, lyrics, stored) ==
    [IdleInvocation EXCEPT !.pc = "resume", !.songId = rec.songId,
                           !.imageElements = rec.imageElements, !.aligned = rec.aligned,
                           !.lyrics = lyrics, !.stored = stored]

\* fetchLyrics, line 1108
CommitsAligned_Always(repairedLines) == TRUE

CommitsAligned(repairedLines) == Len(repairedLines) > 0

\* fetchLyrics with an entry written where lines 1130-1131 return null
FinishFallback_CachesNull(i, rec) ==
    LET fallbackPrompt == ClipPrompt(rec.clipData)
    IN IF rec.clipData # 0 /\ ~PromptFalsy(fallbackPrompt)
       THEN LET lyricsData == LyricsData("plain", <<>>, fallbackPrompt)
            IN /\ lyricsCache' = [lyricsCache EXCEPT ![rec.songId] = lyricsData]
               /\ inv' = [inv EXCEPT ![i] = FetchReturned(rec, lyricsData, "plain")]
       ELSE /\ inv' = [inv EXCEPT ![i] = FetchReturned(rec, NullLyrics, "none")]
            /\ lyricsCache' = [lyricsCache EXCEPT ![rec.songId] = NullLyrics]

\* fetchLyrics, lines 1120-1131, once the clip metadata is at hand
FinishFallback(i, rec) ==
    LET fallbackPrompt == ClipPrompt(rec.clipData)
    IN IF rec.clipData # 0 /\ ~PromptFalsy(fallbackPrompt)
       THEN LET lyricsData == LyricsData("plain", <<>>, fallbackPrompt)
            IN /\ lyricsCache' = [lyricsCache EXCEPT ![rec.songId] = lyricsData]
               /\ inv' = [inv EXCEPT ![i] = FetchReturned(rec, lyricsData, "plain")]
       ELSE /\ inv' = [inv EXCEPT ![i] = FetchReturned(rec, NullLyrics, "none")]
            /\ UNCHANGED lyricsCache

\* fetchLyrics, line 1120: ensureClipData fetches unless clipData is set
Fallback(i, rec) ==
    IF rec.clipData # 0 THEN FinishFallback(i, rec)
    ELSE /\ inv' = [inv EXCEPT ![i] = [rec EXCEPT !.pc = "awaitClipFallback"]]
         /\ UNCHANGED lyricsCache

\* fetchLyrics, lines 1100-1116, once the clip metadata is at hand
RepairAndCommit(i, rec) ==
    \E repairResult \in {repairMissingPromptLines(rec.timing, ClipPrompt(rec.clipData),
                                                  rec.durationS)} :
       LET repairedLines == repairResult.lines
       IN IF CommitsAligned(repairedLines)
          THEN LET lyricsData == LyricsData("aligned", repairedLines, PromptAbsent)
               IN /\ lyricsCache' = [lyricsCache EXCEPT ![rec.songId] = lyricsData]
                  /\ inv' = [inv EXCEPT ![i] = FetchReturned(rec, lyricsData, "aligned")]
          ELSE Fallback(i, rec)

\* fetchLyrics, lines 1089-1100: the timing pipeline, then ensureClipData
BuildAndRepair(i, rec, alignedLyrics) ==
    \E timingLines \in {buildAlignedLyricsTimings(alignedLyrics, rec.durationS,
                                                  AlignedPayloads[rec.aligned].waveform_data)} :
       LET built == [rec EXCEPT !.timing = timingLines]
       IN IF built.clipData # 0 THEN RepairAndCommit(i, built)
          ELSE /\ inv' = [inv EXCEPT ![i] = [built EXCEPT !.pc = "awaitClipRepair"]]
               /\ UNCHANGED lyricsCache

\* processPage, lines 1251-1289, and fetchLyrics up to its first await
ProcessPage(i) ==
    /\ inv[i].pc = "idle"
    /\ \A j \in 1..(i - 1) : inv[j].pc # "idle"   \* invocations are interchangeable
    /\ LET songId == url
           imageElements == covers
           rec == [inv[i] EXCEPT !.songId = songId, !.imageElements = imageElements]
       IN IF songId = "" \/ imageElements = {} \/ ~session
          THEN inv' = [inv EXCEPT ![i] = Returned(rec, 0)]
          ELSE IF lyricsCache[songId].type # "none"
          THEN inv' = [inv EXCEPT ![i] = FetchReturned(rec, lyricsCache[songId], "none")]
          ELSE inv' = [inv EXCEPT ![i] = [rec EXCEPT !.pc = "awaitAligned"]]
    /\ UNCHANGED <<url, session, covers, overlays, lyricsCache>>
    /\ UNCHANGED pipeVars
    /\ UNCHANGED <<debounceVars, overlayVars>>

\* fetchLyrics, lines 1061-1088: the aligned_lyrics request is answered
AlignedResponse(i) ==
    /\ inv[i].pc = "awaitAligned"
    /\ \E r \in AlignedResponses :
          IF r = -1
          THEN /\ inv' = [inv EXCEPT ![i] = FetchReturned(inv[i], NullLyrics, "none")]
               /\ UNCHANGED lyricsCache
          ELSE IF r = 0 THEN Fallback(i, inv[i])
          ELSE LET data == AlignedPayloads[r]
                   alignedLyrics == data.aligned_lyrics
                   rec == [inv[i] EXCEPT !.aligned = r,
                                         !.durationS = extractDurationSeconds(data.source)]
               IN IF Len(alignedLyrics) > 0
                  THEN IF ~IsFiniteNumber(rec.durationS)
                       THEN /\ inv' = [inv EXCEPT ![i] = [rec EXCEPT !.pc = "awaitClipDuration"]]
                            /\ UNCHANGED lyricsCache
                       ELSE BuildAndRepair(i, rec, alignedLyrics)
                  ELSE Fallback(i, [inv[i] EXCEPT !.aligned = r])
    /\ UNCHANGED <<url, session, covers, overlays>>
    /\ UNCHANGED pipeVars
    /\ UNCHANGED <<debounceVars, overlayVars>>

\* fetchLyrics, lines 1084-1087: the clip request made for the duration is answered
ClipDurationResponse(i) ==
    /\ inv[i].pc = "awaitClipDuration"
    /\ \E clip \in ClipResponses :
          BuildAndRepair(i, [inv[i] EXCEPT !.clipData = clip,
                                           !.durationS = extractDurationSeconds(ClipSource(clip))],
                         AlignedPayloads[inv[i].aligned].aligned_lyrics)
    /\ UNCHANGED <<url, session, covers, overlays>>
    /\ UNCHANGED pipeVars
    /\ UNCHANGED <<debounceVars, overlayVars>>

\* fetchLyrics, line 1100: the clip request made for the repair is answered
ClipRepairResponse(i) ==
    /\ inv[i].pc = "awaitClipRepair"
    /\ \E clip \in ClipResponses : RepairAndCommit(i, [inv[i] EXCEPT !.clipData = clip])
    /\ UNCHANGED <<url, session, covers, overlays>>
    /\ UNCHANGED pipeVars
    /\ UNCHANGED <<debounceVars, overlayVars>>

\* fetchLyrics, line 1120: the clip request made for the fallback is answered
ClipFallbackResponse(i) ==
    /\ inv[i].pc = "awaitClipFallback"
    /\ \E clip \in ClipResponses : FinishFallback(i, [inv[i] EXCEPT !.clipData = clip])
    /\ UNCHANGED <<url, session, covers, overlays>>
    /\ UNCHANGED pipeVars
    /\ UNCHANGED <<debounceVars, overlayVars>>

\* createToolsOverlay(songId, lyrics)
Overlay(songId, lyrics) == [songId |-> songId, lyrics |-> lyrics]

\* processPage without the test of lines 1317-1321: the overlay is appended to a
\* parent that has one already
Resume_NoExistenceCheck(i) ==
    /\ inv[i].pc = "resume"
    /\ IF inv[i].lyrics.type = "null" \/ inv[i].lyrics.type # "aligned"
       THEN /\ inv' = [inv EXCEPT ![i] = Returned(inv[i], 0)]
            /\ UNCHANGED overlays
       ELSE LET targets == inv[i].imageElements
            IN /\ overlays' = [p \in Parents |->
                                  IF p \in targets
                                  THEN overlays[p] \o <<Overlay(inv[i].songId, inv[i].lyrics)>>
                                  ELSE overlays[p]]
               /\ inv' = [inv EXCEPT ![i] = Returned(inv[i], Cardinality(targets))]
    /\ UNCHANGED <<url, session, covers, lyricsCache>>
    /\ UNCHANGED pipeVars
    /\ UNCHANGED <<debounceVars, overlayVars>>

\* processPage without the test of lines 1298-1302: anything but null is injected
Resume_AnyLyrics(i) ==
    /\ inv[i].pc = "resume"
    /\ IF inv[i].lyrics.type = "null"
       THEN /\ inv' = [inv EXCEPT ![i] = Returned(inv[i], 0)]
            /\ UNCHANGED overlays
       ELSE LET targets == {p \in inv[i].imageElements : overlays[p] = <<>>}
            IN /\ overlays' = [p \in Parents |->
                                  IF p \in targets
                                  THEN <<Overlay(inv[i].songId, inv[i].lyrics)>>
                                  ELSE overlays[p]]
               /\ inv' = [inv EXCEPT ![i] = Returned(inv[i], Cardinality(targets))]
    /\ UNCHANGED <<url, session, covers, lyricsCache>>
    /\ UNCHANGED pipeVars
    /\ UNCHANGED <<debounceVars, overlayVars>>

\* processPage, lines 1291-1337: fetchLyrics has returned
Resume(i) ==
    /\ inv[i].pc = "resume"
    /\ IF inv[i].lyrics.type = "null" \/ inv[i].lyrics.type # "aligned"
       THEN /\ inv' = [inv EXCEPT ![i] = Returned(inv[i], 0)]
            /\ UNCHANGED overlays
       ELSE LET targets == {p \in inv[i].imageElements : overlays[p] = <<>>}
            IN /\ overlays' = [p \in Parents |->
                                  IF p \in targets
                                  THEN <<Overlay(inv[i].songId, inv[i].lyrics)>>
                                  ELSE overlays[p]]
               /\ inv' = [inv EXCEPT ![i] = Returned(inv[i], Cardinality(targets))]
    /\ UNCHANGED <<url, session, covers, lyricsCache>>
    /\ UNCHANGED pipeVars
    /\ UNCHANGED <<debounceVars, overlayVars>>

\* processPage has returned
Return(i) ==
    /\ inv[i].pc = "done"
    /\ inv' = [inv EXCEPT ![i] = IdleInvocation]
    /\ UNCHANGED <<url, session, covers, overlays, lyricsCache>>
    /\ UNCHANGED pipeVars
    /\ UNCHANGED <<debounceVars, overlayVars>>

\* the single-page application moves to another page
Navigate ==
    /\ \E s \in (Songs \cup {""}) \ {url} : url' = s
    /\ UNCHANGED <<session, covers, overlays, lyricsCache, inv>>
    /\ UNCHANGED pipeVars
    /\ UNCHANGED <<debounceVars, overlayVars>>

\* the page adds or removes cover images; a removed parent takes its overlays
\* with it and never returns to the document
DomChange ==
    /\ \E c \in (SUBSET Parents) \ {covers} :
          /\ covers' = c
          /\ overlays' = [p \in Parents |-> IF p \in covers \ c THEN <<>> ELSE overlays[p]]
          /\ inv' = [i \in Invocations |->
                        [inv[i] EXCEPT !.imageElements = inv[i].imageElements \ (covers \ c)]]
    /\ UNCHANGED <<url, session, lyricsCache>>
    /\ UNCHANGED pipeVars
    /\ UNCHANGED <<debounceVars, overlayVars>>

\* no debounced call has been made and no overlay has been created
NoTimer == now = 0 /\ timers = {} /\ timeout = 0 /\ events = <<>>
NoToolsBox == toolsBox = [created |-> FALSE] /\ downloads = <<>>

InitPage ==
    /\ pc = "page"
    /\ aligned_lyrics = <<>> /\ timingSource = "none"
    /\ chosen = <<>> /\ durationS = Undefined /\ prompt = PromptAbsent
    /\ waveformData = NoWaveform /\ relative = FALSE /\ relativeMethod = "none"
    /\ baseTimings = <<>> /\ normalized = <<>> /\ repaired = NoRepair
    /\ url \in Songs \cup {""}
    /\ session \in BOOLEAN
    /\ covers = {}
    /\ overlays = [p \in Parents |-> <<>>]
    /\ lyricsCache = [s \in Songs |-> NoEntry]
    /\ inv = [i \in Invocations |-> IdleInvocation]
    /\ NoTimer /\ NoToolsBox

NextPage ==
    \/ \E i \in Invocations : ProcessPage(i)
    \/ \E i \in Invocations : AlignedResponse(i)
    \/ \E i \in Invocations : ClipDurationResponse(i)
    \/ \E i \in Invocations : ClipRepairResponse(i)
    \/ \E i \in Invocations : ClipFallbackResponse(i)
    \/ \E i \in Invocations : Resume(i)
    \/ \E i \in Invocations : Return(i)
    \/ Navigate
    \/ DomChange

SpecPage == InitPage /\ [][NextPage]_vars

----------------------------------------------------------------------------
(* The debounced trigger: debounce(processPage, 500), the timeouts of the   *)
(* event loop, and the MANUALLY_TRIGGER message.  Time advances in steps of *)
(* TimeStep; a timeout that is due fires at its time or later, and until it *)
(* has fired clearTimeout removes it.                                        *)

MaxSteps == 6
MaxTriggers == 3

DebounceWait == Ms(500)
TimeStep == Ms(250)

\* the pipeline and the page at rest
NoPipeline ==
    /\ pc = "page"
    /\ aligned_lyrics = <<>> /\ timingSource = "none"
    /\ chosen = <<>> /\ durationS = Undefined /\ prompt = PromptAbsent
    /\ waveformData = NoWaveform /\ relative = FALSE /\ relativeMethod = "none"
    /\ baseTimings = <<>> /\ normalized = <<>> /\ repaired = NoRepair
NoPage ==
    /\ url = "" /\ session = FALSE /\ covers = {}
    /\ overlays = [p \in Parents |-> <<>>]
    /\ lyricsCache = [s \in Songs |-> NoEntry]
    /\ inv = [i \in Invocations |-> IdleInvocation]

\* "call": debouncedProcessPage is called; "run": the timeout calls processPage;
\* "manual": the MANUALLY_TRIGGER message calls processPage
Event(kind, at) == [kind |-> kind, at |-> at]
Triggers == SelectSeq(events, LAMBDA e : e.kind # "run")
Calls == SelectSeq(events, LAMBDA e : e.kind = "call")

\* clearTimeout(id): a timeout that has fired or was cleared is not in the table
clearTimeout(table, id) == {t \in table : t.id # id}

\* executedFunction without the clearTimeout of line 1348
DebouncedCall_NoClear ==
    /\ Len(Triggers) < MaxTriggers
    /\ now + DebounceWait <= MaxSteps * TimeStep
    /\ LET id == Len(Calls) + 1
       IN /\ timers' = timers \cup {[id |-> id, due |-> now + DebounceWait]}
          /\ timeout' = id
    /\ events' = Append(events, Event("call", now))
    /\ UNCHANGED now
    /\ UNCHANGED <<pipeVars, pageVars, overlayVars>>

\* debouncedProcessPage(): executedFunction, lines 1343-1350, called from the
\* MutationObserver (1379) or for a URL_CHANGED message (1398)
DebouncedCall ==
    /\ Len(Triggers) < MaxTriggers
    /\ now + DebounceWait <= MaxSteps * TimeStep
    /\ LET id == Len(Calls) + 1
       IN /\ timers' = clearTimeout(timers, timeout) \cup {[id |-> id, due |-> now + DebounceWait]}
          /\ timeout' = id
    /\ events' = Append(events, Event("call", now))
    /\ UNCHANGED now
    /\ UNCHANGED <<pipeVars, pageVars, overlayVars>>

\* later, lines 1344-1347: a timeout that is due fires and calls processPage
TimerFires ==
    /\ \E t \in timers :
          /\ t.due <= now
          /\ timers' = clearTimeout(timers \ {t}, timeout)
    /\ events' = Append(events, Event("run", now))
    /\ UNCHANGED <<now, timeout>>
    /\ UNCHANGED <<pipeVars, pageVars, overlayVars>>

\* the onMessage listener, lines 1399-1402: MANUALLY_TRIGGER
ManualTrigger ==
    /\ Len(Triggers) < MaxTriggers
    /\ events' = Append(events, Event("manual", now))
    /\ UNCHANGED <<now, timers, timeout>>
    /\ UNCHANGED <<pipeVars, pageVars, overlayVars>>

TimePasses ==
    /\ now < MaxSteps * TimeStep
    /\ now' = now + TimeStep
    /\ UNCHANGED <<timers, timeout, events>>
    /\ UNCHANGED <<pipeVars, pageVars, overlayVars>>

InitDebounce == NoPipeline /\ NoPage /\ NoTimer /\ NoToolsBox

NextDebounce == DebouncedCall \/ TimerFires \/ ManualTrigger \/ TimePasses

\* the event loop runs a timeout that is due, and time passes
SpecDebounce ==
    InitDebounce /\ [][NextDebounce]_vars /\ WF_vars(TimerFires) /\ WF_vars(TimePasses)

----------------------------------------------------------------------------
(* One overlay and its two buttons: createToolsOverlay.  A button label is  *)
(* the i18n message it was built from and the format name it was given; a   *)
(* file is what downloadFile receives: content, name and MIME type.          *)

MaxDownloads == 3

\* type.toUpperCase()
FormatName(type) == IF type = "lrc" THEN "LRC" ELSE "SRT"

getDownloadText(type) == [message |-> "download_lyric", format |-> FormatName(type)]
getToggleText(type) ==
    LET nextType == IF type = "lrc" THEN "SRT" ELSE "LRC"
    IN [message |-> "toggle_type", format |-> nextType]

\* whole seconds and the fraction of a second of a time in ticks
WholeSeconds(t) == t \div Ms(1000)
Millis(t) == (t % Ms(1000)) \div Tick

\* hh:mm:ss,mmm
formatSRTTime(t) ==
    <<WholeSeconds(t) \div 3600, (WholeSeconds(t) % 3600) \div 60, WholeSeconds(t) % 60,
      Millis(t)>>

\* [mm:ss.xx]
formatLRCTime(t) ==
    <<WholeSeconds(t) \div 60, WholeSeconds(t) % 60, Millis(t) \div 10>>

\* the numbered entries of the SRT text
convertToSRT(alignedLines) ==
    [index \in DOMAIN alignedLines |->
        [number |-> index,
         startTime |-> formatSRTTime(alignedLines[index].start_s),
         endTime |-> formatSRTTime(alignedLines[index].end_s),
         text |-> alignedLines[index].text]]

\* the tagged lines of the LRC text
convertToLRC(alignedLines) ==
    [index \in DOMAIN alignedLines |->
        [tag |-> formatLRCTime(alignedLines[index].start_s),
         text |-> alignedLines[index].text]]

\* aligned lyrics an overlay may be created with
OverlayLyrics ==
    {<<[text |-> <<"a">>, start_s |-> 0, end_s |-> Ms(1000)]>>,
     <<[text |-> <<"a">>, start_s |-> Ms(61500), end_s |-> Ms(62250)],
       [text |-> <<"c">>, start_s |-> Ms(3725250), end_s |-> Ms(3725270)]>>}

\* createToolsOverlay(songId, lyrics), lines 1156-1205
CreateOverlay ==
    /\ ~toolsBox.created
    /\ \E songId \in Songs, data \in OverlayLyrics :
          toolsBox' = [created |-> TRUE, songId |-> songId, data |-> data,
                       currentFileType |-> "lrc",
                       downloadButton |-> getDownloadText("lrc"),
                       toggleButton |-> getToggleText("lrc")]
    /\ UNCHANGED downloads
    /\ UNCHANGED <<pipeVars, pageVars, debounceVars>>

\* the click handler of the toggle button without line 1197
ToggleClick_DownloadLabelKept ==
    /\ toolsBox.created
    /\ LET currentFileType == IF toolsBox.currentFileType = "lrc" THEN "srt" ELSE "lrc"
       IN toolsBox' = [toolsBox EXCEPT !.currentFileType = currentFileType,
                                       !.toggleButton = getToggleText(currentFileType)]
    /\ UNCHANGED downloads
    /\ UNCHANGED <<pipeVars, pageVars, debounceVars>>

\* the click handler of the toggle button, lines 1191-1199
ToggleClick ==
    /\ toolsBox.created
    /\ LET currentFileType == IF toolsBox.currentFileType = "lrc" THEN "srt" ELSE "lrc"
       IN toolsBox' = [toolsBox EXCEPT !.currentFileType = currentFileType,
                                       !.downloadButton = getDownloadText(currentFileType),
                                       !.toggleButton = getToggleText(currentFileType)]
    /\ UNCHANGED downloads
    /\ UNCHANGED <<pipeVars, pageVars, debounceVars>>

\* the click handler of the download button, lines 1174-1187, and downloadFile
DownloadClick ==
    /\ toolsBox.created
    /\ Len(downloads) < MaxDownloads
    /\ LET alignedLines == toolsBox.data
           content == IF toolsBox.currentFileType = "srt" THEN convertToSRT(alignedLines)
                      ELSE convertToLRC(alignedLines)
           fileName == [songId |-> toolsBox.songId, extension |-> toolsBox.currentFileType]
       IN downloads' = Append(downloads,
                              [content |-> content, fileName |-> fileName,
                               mimeType |-> <<"text", toolsBox.currentFileType>>])
    /\ UNCHANGED toolsBox
    /\ UNCHANGED <<pipeVars, pageVars, debounceVars>>

InitOverlay == NoPipeline /\ NoPage /\ NoTimer /\ NoToolsBox

NextOverlay == CreateOverlay \/ ToggleClick \/ DownloadClick

SpecOverlay == InitOverlay /\ [][NextOverlay]_vars

----------------------------------------------------------------------------
(* Inputs of one invocation *)


StartVals == {Undefined, Num(Ms(-1000)), Num(Ms(1000) + Tick \div 2), Num(Ms(2990)),
              Num(Ms(2990000))}
EndVals == {Undefined, Num(Ms(1010) + 1), Num(Ms(3500)), Num(Ms(2990000))}
Durations == {Undefined, NaN, Num(0), Num(Ms(-1000)), Num(Ms(3000)), Num(Ms(20000))}
TextDurations == {Undefined, Num(0), Num(Ms(3000)), Num(Ms(20000))}

\* line texts as getLineText delivers them (sanitized, possibly empty)
LineTexts == {<<>>, <<"a">>, <<"c">>, <<"A", ",", "c">>}

NumericLines == [text : {<<"a">>}, start_s : StartVals, end_s : EndVals]
TextLines ==
    {[text |-> t, start_s |-> Num(w[1]), end_s |-> Num(w[2])] :
        t \in LineTexts,
        w \in {<<0, Ms(1000)>>, <<Ms(1000) + 1, Ms(1300)>>, <<Ms(1300), Ms(2990)>>,
               <<Ms(2990), Ms(3500)>>}}

Prompts ==
    {PromptAbsent,
     PromptOf(<<(<<>>)>>),
     PromptOf(<<<<" ">>, <<"CR">>>>),
     PromptOf(<<<<"a">>, <<"b">>, <<"c">>>>),
     PromptOf(<<<<"[", "x", "]">>, <<"b">>, <<" ", "A">>, <<>>, <<"b", "!">>, <<"d">>,
               <<"(", "b", ")">>, <<"c", "CR">>>>),
     PromptOf(<<<<"a">>, <<"c">>, <<"b">>>>),
     PromptOf(<<<<"b">>, <<"a">>, <<"b">>, <<"a">>>>),
     PromptOf(<<<<"d">>, <<"b">>>>)}

SeqsUpTo(S, n) == UNION {[1..k -> S] : k \in 0..n}

\* the lines 'Line A', 'Line B', 'Line C'
LineNamed(letter) == <<"L", "i", "n", "e", " ", letter>>

\* resolved lines 'Line A' 0..2 and 'Line C' 5..7 with the reference text of three lines
RepairScenarioLines ==
    <<[text |-> LineNamed("A"), start_s |-> Num(0), end_s |-> Num(Ms(2000))],
      [text |-> LineNamed("C"), start_s |-> Num(Ms(5000)), end_s |-> Num(Ms(7000))]>>
RepairScenarioPrompt == PromptOf(<<LineNamed("A"), LineNamed("B"), LineNamed("C")>>)
ScenarioDurations == {Undefined, Num(Ms(10000))}

\* aligned lines with or without times of their own and with or without one
\* timed word, early, in the middle or late
TimeSpans == {<<Undefined, Undefined>>, <<Num(Ms(1000)), Num(Ms(2000))>>,
              <<Num(Ms(5000)), Num(Ms(6000))>>, <<Num(Ms(9000)), Num(Ms(10000))>>}
AlignedLines ==
    {AlignedLine(<<"a">>, own[1], own[2],
                 IF IsFiniteNumber(word[1])
                 THEN <<AlignedToken(<<"a">>, word[1], word[2])>> ELSE <<>>) :
        own \in TimeSpans, word \in TimeSpans}

\* a line in another unit than its duration hint: hundredths, tenths, the same
\* unit, tens and hundreds of it, and one that fits no candidate
ScaleLines153 ==
    [text : {<<"a">>}, start_s : {Undefined},
     end_s : {Num(Ms(1530 * 1000)), Num(Ms(153 * 1000)), Num(Ms(15300)), Num(Ms(1530)),
              Num(Ms(500 * 1000))}]
ScaleDurations == {Num(Ms(153 * 1000)), Num(Ms(15300))}

\* lines 'Hello' and 'World' whose times are relative, and the envelopes they come with
EnvelopeLines ==
    [text : {<<"H", "e", "l", "l", "o">>, <<"W", "o", "r", "l", "d">>},
     start_s : {Num(0)}, end_s : {Num(0), Num(Ms(1500))}]
EnvelopeScenarioLines ==
    <<[text |-> <<"H", "e", "l", "l", "o">>, start_s |-> Num(0), end_s |-> Num(0)],
      [text |-> <<"W", "o", "r", "l", "d">>, start_s |-> Num(0), end_s |-> Num(0)]>>
ScenarioEnvelope == Waveform(<<0, 0, 5, 5, 5, 0, 0, 0, 0, 0>>)
Envelopes ==
    {NoWaveform, Waveform(<<5>>), ScenarioEnvelope,
     Waveform(<<0, 0, 5, 5, 5, 5, 5, 5, 5, 5, 5, 0, 0>>),
     Waveform(<<0, 1, 9, 2, 7, 7, 3, 1, 8, 8, 1, 0>>)}

\* the inputs that start at the chosen candidate
InitChosen ==
    \/ /\ chosen \in SeqsUpTo(NumericLines, MaxLines)
       /\ prompt = PromptAbsent
       /\ durationS \in Durations
       /\ waveformData = NoWaveform
    \/ /\ chosen \in SeqsUpTo(TextLines, MaxLines)
       /\ prompt \in Prompts
       /\ durationS \in TextDurations
       /\ waveformData = NoWaveform
    \/ /\ chosen = RepairScenarioLines
       /\ prompt = RepairScenarioPrompt
       /\ durationS \in ScenarioDurations
       /\ waveformData = NoWaveform
    \/ /\ chosen \in [1..1 -> ScaleLines153]
       /\ prompt = PromptAbsent
       /\ durationS \in ScaleDurations
       /\ waveformData = NoWaveform
    \/ /\ chosen \in SeqsUpTo(EnvelopeLines, MaxLines)
       /\ prompt = PromptAbsent
       /\ durationS \in ScenarioDurations \cup {Num(Ms(30))}
       /\ waveformData \in Envelopes

Init ==
    /\ timingSource = "none"
    /\ \/ /\ pc = "aligned"
          /\ aligned_lyrics \in SeqsUpTo(AlignedLines, MaxAlignedLines)
          /\ chosen = <<>>
          /\ prompt = PromptAbsent
          /\ durationS = Num(Ms(10000))
          /\ waveformData = NoWaveform
       \/ /\ pc = "chosen" /\ aligned_lyrics = <<>>
          /\ InitChosen
    /\ relative = FALSE
    /\ relativeMethod = "none"
    /\ baseTimings = <<>>
    /\ normalized = <<>>
    /\ repaired = NoRepair
    /\ url = "" /\ session = FALSE /\ covers = {}
    /\ overlays = [p \in Parents |-> <<>>]
    /\ lyricsCache = [s \in Songs |-> NoEntry]
    /\ inv = [i \in Invocations |-> IdleInvocation]
    /\ NoTimer /\ NoToolsBox

\* buildAlignedLyricsTimings, lines 956-958
Select ==
    /\ pc = "aligned"
    /\ \E selected \in {chooseTimingSource(wordTimings, lineTimings) :
                            wordTimings \in {deriveTimingsFromWords(aligned_lyrics)},
                            lineTimings \in {deriveTimingsFromLines(aligned_lyrics)}} :
          /\ chosen' = selected.timings
          /\ timingSource' = selected.source
    /\ pc' = "chosen"
    /\ UNCHANGED <<aligned_lyrics, durationS, waveformData, prompt, relative, relativeMethod,
                   baseTimings, normalized, repaired>>
    /\ UNCHANGED pageVars
    /\ UNCHANGED <<debounceVars, overlayVars>>

\* buildAlignedLyricsTimings, lines 959-971
Expand ==
    /\ pc = "chosen"
    /\ relative' = looksLikeRelativeLineTimings(chosen, durationS)
    /\ \E expanded \in {ExpandIfRelative(chosen, durationS, waveformData)} :
          /\ baseTimings' = expanded.lines
          /\ relativeMethod' = expanded.relativeMethod
    /\ pc' = "base"
    /\ UNCHANGED <<aligned_lyrics, timingSource, chosen, durationS, waveformData, prompt,
                   normalized, repaired>>
    /\ UNCHANGED pageVars
    /\ UNCHANGED <<debounceVars, overlayVars>>

\* buildAlignedLyricsTimings, line 983
Normalize ==
    /\ pc = "base"
    /\ normalized' = normalizeTimings(baseTimings, durationS)
    /\ pc' = "normalized"
    /\ UNCHANGED <<aligned_lyrics, timingSource, chosen, durationS, waveformData, prompt,
                   relative, relativeMethod,
                   baseTimings, repaired>>
    /\ UNCHANGED pageVars
    /\ UNCHANGED <<debounceVars, overlayVars>>

\* fetchLyrics, lines 1100-1106
Repair ==
    /\ pc = "normalized"
    /\ repaired' = repairMissingPromptLines(normalized, prompt, durationS)
    /\ pc' = "repaired"
    /\ UNCHANGED <<aligned_lyrics, timingSource, chosen, durationS, waveformData, prompt,
                   relative, relativeMethod,
                   baseTimings, normalized>>
    /\ UNCHANGED pageVars
    /\ UNCHANGED <<debounceVars, overlayVars>>

Next == Select \/ Expand \/ Normalize \/ Repair

Spec == Init /\ [][Next]_vars

----------------------------------------------------------------------------
(* Properties of the normalizer *)

NormalizeDone == pc \in {"normalized", "repaired"}
ValidDuration(d) == IsFiniteNumber(d) /\ d.v > 0

StartsNonDecreasing(ls) == \A i \in 1..(Len(ls) - 1) : ls[i].start_s <= ls[i + 1].start_s
EndsAfterStarts(ls) == \A i \in DOMAIN ls : ls[i].end_s >= ls[i].start_s + MinEndGap
WithinDuration(ls, d) ==
    \A i \in DOMAIN ls :
        /\ 0 <= ls[i].start_s /\ ls[i].start_s <= d.v
        /\ 0 <= ls[i].end_s /\ ls[i].end_s <= d.v

\* C1: whatever the input and the duration hint, the sequence normalizeTimings
\* returns has non-decreasing starts and every entry has end >= start + 0.02 s,
\* after rounding to milliseconds
C1_NormalizedOrdered ==
    NormalizeDone => StartsNonDecreasing(normalized) /\ EndsAfterStarts(normalized)

\* an input whose second start precedes its first and one of whose ends is not
\* after its start has been normalized
C1_Witness ==
    /\ pc = "normalized"
    /\ Len(normalized) >= 2
    /\ IsFiniteNumber(baseTimings[1].start_s) /\ IsFiniteNumber(baseTimings[2].start_s)
    /\ baseTimings[2].start_s.v < baseTimings[1].start_s.v
    /\ \E i \in DOMAIN baseTimings :
          /\ IsFiniteNumber(baseTimings[i].start_s) /\ IsFiniteNumber(baseTimings[i].end_s)
          /\ baseTimings[i].end_s.v <= baseTimings[i].start_s.v

\* C2: with a duration D supplied, every start and end normalizeTimings returns
\* lies in [0, D]
C2_NormalizedWithinDuration ==
    (NormalizeDone /\ ValidDuration(durationS)) => WithinDuration(normalized, durationS)

\* C3: the output committed after the repair has non-decreasing starts, end >=
\* start + 0.02 s for every entry and, with a duration D known, every start and
\* end in [0, D]
C3_RepairedWellFormed ==
    pc = "repaired" =>
        /\ StartsNonDecreasing(repaired.lines)
        /\ EndsAfterStarts(repaired.lines)
        /\ ValidDuration(durationS) => WithinDuration(repaired.lines, durationS)

\* C4: a duration hint that is non-finite, zero or negative gives the output the
\* pipeline gives with the duration undefined
C4_InvalidDurationAsAbsent ==
    (pc = "repaired" /\ ~ValidDuration(durationS)) =>
        repaired = Pipeline(chosen, Undefined, waveformData, prompt)

MissingStart(i) == ~IsFiniteNumber(baseTimings[i].start_s)
MissingEnd(i) == ~IsFiniteNumber(baseTimings[i].end_s)
HasFiniteTime == FiniteTimes(baseTimings) # {}

OnePerLine ==
    /\ Len(normalized) = Len(baseTimings)
    /\ \A i \in DOMAIN normalized : normalized[i].text = baseTimings[i].text

\* the start committed for line i, before rounding
CommittedStart(i) == CommittedLines(baseTimings, durationS)[i].start

\* the first finite start after line i, scaled and shifted as the normalizer
\* scales and shifts every value; Undefined if there is none
FirstLaterStart(i) ==
    LET scaled == ScaledLines(baseTimings, durationS)
        later == {j \in DOMAIN scaled : j > i /\ IsFiniteNumber(scaled[j].start_s)}
    IN IF later = {} THEN Undefined
       ELSE Num(scaled[MinOf(later)].start_s.v + StartOffset(scaled))

ClampToDuration(x) == IF IsFiniteNumber(durationS) /\ x > durationS.v THEN durationS.v ELSE x

\* the duration hint is absent, or it is positive and bounds every output time
DurationRespected ==
    ~IsFiniteNumber(durationS) \/ (durationS.v > 0 /\ WithinDuration(normalized, durationS))

\* C5 as stated: with a finite timestamp in the input, normalizeTimings returns
\* one entry per line, in order and with its text, a missing start replaced by
\* the start committed before it and a missing end by a later line's start or by
\* start + fallback duration
C5_MissingTimesAsStated ==
    (NormalizeDone /\ HasFiniteTime /\ DurationRespected) =>
        /\ OnePerLine
        /\ \A i \in DOMAIN normalized :
              (MissingStart(i) /\ i > 1) => normalized[i].start_s = normalized[i - 1].start_s
        /\ \A i \in DOMAIN normalized :
              MissingEnd(i) =>
                  \/ \E j \in DOMAIN normalized : j > i /\ normalized[i].end_s = normalized[j].start_s
                  \/ normalized[i].end_s =
                         roundToMillis(CommittedStart(i)
                                       + FallbackDuration(ScaledLines(baseTimings, durationS)))

\* the end the normalizer gives a line that has none
FilledEnd(i) ==
    LET start == CommittedStart(i)
        next == FirstLaterStart(i)
        estimate == IF IsFiniteNumber(next) /\ next.v > start THEN next.v
                    ELSE start + FallbackDuration(ScaledLines(baseTimings, durationS))
    IN Max2(ClampToDuration(estimate), start + MinEndGap)

\* C5 amended: one entry per line, in order and with its text; a missing start
\* is the start committed before it (0 for the first line, limited to a supplied
\* duration); a missing end is the first later finite start when that is after
\* the line's start and start + fallback duration otherwise, limited to a
\* supplied duration and raised to start + 0.02 s
C5_MissingTimesFilled ==
    (NormalizeDone /\ HasFiniteTime) =>
        /\ OnePerLine
        /\ \A i \in DOMAIN normalized :
              MissingStart(i) =>
                  normalized[i].start_s =
                      IF i = 1 THEN roundToMillis(ClampToDuration(0))
                      ELSE normalized[i - 1].start_s
        /\ \A i \in DOMAIN normalized :
              MissingEnd(i) => normalized[i].end_s = roundToMillis(FilledEnd(i))

\* a line with neither start nor end, followed by a line that starts later, has
\* been normalized and ends where that line starts
C5_Witness ==
    /\ pc = "normalized"
    /\ HasFiniteTime
    /\ \E i \in DOMAIN baseTimings :
          /\ i < Len(baseTimings)
          /\ MissingStart(i) /\ MissingEnd(i)
          /\ IsFiniteNumber(FirstLaterStart(i))
          /\ FirstLaterStart(i).v > CommittedStart(i) + MinEndGap
          /\ normalized[i].text = baseTimings[i].text
          /\ normalized[i].end_s = normalized[i + 1].start_s

----------------------------------------------------------------------------
(* Properties of the repair *)

RECURSIVE IsSubsequence(_, _)
IsSubsequence(a, b) ==
    IF a = <<>> THEN TRUE
    ELSE IF b = <<>> THEN FALSE
    ELSE IF Head(a) = Head(b) THEN IsSubsequence(Tail(a), Tail(b))
    ELSE IsSubsequence(a, Tail(b))

TextAndStart(ls) == [i \in DOMAIN ls |-> <<ls[i].text, ls[i].start_s>>]

Untouched == repaired = [lines |-> normalized, insertedCount |-> 0]

\* C8: when the repair inserts a line, every line of its input is in the output,
\* in the same order, with its text and its start (checked where the duration
\* hint is absent or bounds the input of the repair)
C8_RepairAdditive ==
    (pc = "repaired" /\ repaired.insertedCount > 0 /\ DurationRespected) =>
        IsSubsequence(TextAndStart(normalized), TextAndStart(repaired.lines))

Matched == matchedPromptIndexes(normalized, prompt)

AllMatchedInOrder ==
    /\ ~PromptFalsy(prompt)
    /\ Len(normalized) >= 1
    /\ \A i \in DOMAIN Matched : Matched[i] >= 0
    /\ \A i \in 1..(Len(Matched) - 1) : Matched[i] < Matched[i + 1]

AllMatchedConsecutively ==
    /\ ~PromptFalsy(prompt)
    /\ Len(normalized) >= 1
    /\ \A i \in DOMAIN Matched : Matched[i] = i - 1

\* C9 as stated: if every resolved line matches a distinct reference line and the
\* matched indices increase, the repair inserts nothing and returns its input
C9_NoOpWhenAllMatchedInOrder == (pc = "repaired" /\ AllMatchedInOrder) => Untouched

\* C9 amended: if the resolved lines match the reference lines 0, 1, 2, ... one
\* after the other (no reference line skipped before or between them), the repair
\* inserts nothing and returns its input
C9_NoOpWhenAllMatchedConsecutively == (pc = "repaired" /\ AllMatchedConsecutively) => Untouched

\* two or more resolved lines match the first reference lines, and the reference
\* text has further lines
C9_Witness ==
    /\ pc = "repaired"
    /\ AllMatchedConsecutively
    /\ Len(normalized) >= 2
    /\ Len(parsePromptLines(prompt)) > Len(normalized)

\* no resolved line equals, contains or is contained in a reference line
NoLineMatches ==
    \A i \in DOMAIN normalized : \A j \in DOMAIN parsePromptLines(prompt) :
        \/ normalizeLyricForMatch(normalized[i].text) = <<>>
        \/ normalizeLyricForMatch(parsePromptLines(prompt)[j]) = <<>>
        \/ ~MatchesCandidate(normalizeLyricForMatch(parsePromptLines(prompt)[j]),
                             normalizeLyricForMatch(normalized[i].text))

NoFoothold ==
    \/ PromptFalsy(prompt)
    \/ Len(parsePromptLines(prompt)) = 0
    \/ Len(normalized) < 2
    \/ NoLineMatches

\* C10: without a foothold (no reference text or none with a non-empty line,
\* fewer than 2 resolved lines, or no resolved line matching a reference line) the
\* repair returns its input untouched, with insertedCount 0
C10_UntouchedWithoutFoothold == (pc = "repaired" /\ NoFoothold) => Untouched

\* two resolved lines with text meet a reference text none of whose lines they match
C10_Witness ==
    /\ pc = "repaired"
    /\ ~PromptFalsy(prompt)
    /\ Len(parsePromptLines(prompt)) > 0
    /\ Len(normalized) >= 2
    /\ \A i \in DOMAIN normalized : normalizeLyricForMatch(normalized[i].text) # <<>>
    /\ NoLineMatches

----------------------------------------------------------------------------
(* Properties of the page *)

\* the payload carries no line, or no line or token of it carries a finite time
NoFiniteTime(alignedLyrics) ==
    \A k \in DOMAIN alignedLyrics :
        /\ ~IsFiniteNumber(alignedLyrics[k].start_s)
        /\ ~IsFiniteNumber(alignedLyrics[k].end_s)
        /\ \A t \in DOMAIN alignedLyrics[k].words :
              /\ ~IsFiniteNumber(alignedLyrics[k].words[t].start_s)
              /\ ~IsFiniteNumber(alignedLyrics[k].words[t].end_s)

GotUnusablePayload(i) ==
    inv[i].aligned > 0 /\ NoFiniteTime(AlignedPayloads[inv[i].aligned].aligned_lyrics)

\* C6: when the aligned payload is empty or none of its lines carries a finite
\* start or end, the pipeline output is the empty sequence, the fetchLyrics call
\* stores no 'aligned' cache entry and returns no aligned lyrics, and processPage
\* injects no overlay
C6_NothingFromUnusableInput ==
    /\ \A d \in Durations : buildAlignedLyricsTimings(<<>>, d, NoWaveform) = <<>>
    /\ \A i \in Invocations :
          GotUnusablePayload(i) =>
              /\ inv[i].timing = <<>>
              /\ inv[i].stored # "aligned"
              /\ inv[i].lyrics.type # "aligned"
              /\ inv[i].injected = 0

\* an invocation that found a cover image and was answered with lines none of
\* which carries a finite time has returned, having fallen back to the prompt
C6_Witness ==
    \E i \in Invocations :
        /\ inv[i].pc = "done"
        /\ GotUnusablePayload(i)
        /\ AlignedPayloads[inv[i].aligned].aligned_lyrics # <<>>
        /\ inv[i].stored = "plain"
        /\ covers # {}
        /\ \A p \in Parents : overlays[p] = <<>>

----------------------------------------------------------------------------
(* Properties of the repair scenario *)

RepairScenario ==
    pc = "repaired" /\ chosen = RepairScenarioLines /\ prompt = RepairScenarioPrompt

\* C11: with the reference text 'Line A', 'Line B', 'Line C' and the resolved
\* lines 'Line A' 0..2 and 'Line C' 5..7, the two lines match reference indices
\* 0 and 2, 'Line B' is inserted between them with a start inside [2 s, 5 s],
\* insertedCount is 1 and the result has 3 entries with non-decreasing starts
C11_RepairScenarioInsertsLineB ==
    RepairScenario =>
        /\ matchedPromptIndexes(normalized, prompt) = <<0, 2>>
        /\ repaired.insertedCount = 1
        /\ Len(repaired.lines) = 3
        /\ [i \in 1..3 |-> repaired.lines[i].text]
              = <<LineNamed("A"), LineNamed("B"), LineNamed("C")>>
        /\ Ms(2000) <= repaired.lines[2].start_s /\ repaired.lines[2].start_s <= Ms(5000)
        /\ StartsNonDecreasing(repaired.lines)

\* the scenario has been repaired with a known duration and 'Line B' was inserted
C11_Witness ==
    /\ RepairScenario
    /\ ValidDuration(durationS)
    /\ normalized = [i \in 1..2 |-> [text |-> RepairScenarioLines[i].text,
                                     start_s |-> RepairScenarioLines[i].start_s.v,
                                     end_s |-> RepairScenarioLines[i].end_s.v]]
    /\ \E i \in DOMAIN repaired.lines : repaired.lines[i].text = LineNamed("B")

----------------------------------------------------------------------------
(* Properties of the envelope scenario *)

EnvelopeScenario ==
    /\ pc \in {"base", "normalized", "repaired"}
    /\ chosen = EnvelopeScenarioLines
    /\ durationS = Num(Ms(10000))
    /\ waveformData = ScenarioEnvelope

\* the time of sample index k of the scenario's envelope of 10 samples over 10 s
SampleTime(k) == MulDiv(k, Ms(10000), 9)

TimesOf(ls) == {ls[i].start_s.v : i \in DOMAIN ls} \cup {ls[i].end_s.v : i \in DOMAIN ls}

OrderedBoundedSpaced(ls) ==
    /\ \A i \in 1..(Len(ls) - 1) : ls[i].start_s.v <= ls[i + 1].start_s.v
    /\ \A t \in TimesOf(ls) : 0 <= t /\ t <= Ms(10000)
    /\ \A i \in DOMAIN ls : ls[i].end_s.v >= ls[i].start_s.v + minStep

\* C12 as stated: for 'Hello' and 'World' with start 0 and end 0, duration 10 s and
\* the envelope 0,0,5,5,5,0,0,0,0,0, relative timing is detected, relativeMethod
\* is 'waveform', both lines lie inside the window of activity (sample indices
\* 0 to 5 once the margins are added), starts are non-decreasing, all values lie
\* in [0, 10 s] and every line is at least 20 ms long
C12_EnvelopeScenarioGuided ==
    EnvelopeScenario =>
        /\ relative
        /\ relativeMethod = "waveform"
        /\ \A t \in TimesOf(baseTimings) : t <= SampleTime(5)
        /\ OrderedBoundedSpaced(baseTimings)

\* C12 as the code has it: in that scenario relative timing is detected, the
\* window of activity spans sample indices 0 to 5, fewer than 8 buckets, so the
\* expansion is the uniform one: relativeMethod is 'linear', 'Hello' takes
\* 0..5 s and 'World' 5..10 s; starts are non-decreasing, all values lie in
\* [0, 10 s] and every line is at least 20 ms long
C12_EnvelopeScenarioUniform ==
    EnvelopeScenario =>
        /\ relative
        /\ relativeMethod = "linear"
        /\ baseTimings = expandRelativeTimings(chosen, durationS)
        /\ <<baseTimings[1].start_s.v, baseTimings[1].end_s.v>> = <<0, Ms(5000)>>
        /\ <<baseTimings[2].start_s.v, baseTimings[2].end_s.v>> = <<Ms(5000), Ms(10000)>>
        /\ OrderedBoundedSpaced(baseTimings)

\* the scenario has been expanded and normalized, 'World' starting at 5 s
C12_Witness ==
    /\ EnvelopeScenario
    /\ pc = "normalized"
    /\ relative
    /\ Len(normalized) = 2
    /\ normalized[2].start_s = Ms(5000)

----------------------------------------------------------------------------
(* Properties of the scale inference *)

\* the scale normalizeTimings inferred for the base timings, once it has run
InferredScale == inferScale(FiniteTimes(baseTimings), durationS)

\* C13: inferScale returns one of 1, 0.1, 0.01, 0.001, 10, 100; with a known
\* positive duration it returns a candidate whose max * multiplier deviates least
\* from the duration when that deviation is at most 25%, and 1 otherwise (a
\* maximum of 1530 with a duration of 153 gives 0.1); without a known duration it
\* returns 0.001 when the maximum exceeds 1000 and 1 otherwise
C13_InferScaleAsStated ==
    /\ inferScale({Ms(1530 * 1000)}, Num(Ms(153 * 1000))) = Scale(1, 10)
    /\ NormalizeDone =>
          LET times == FiniteTimes(baseTimings)
              result == InferredScale
              candidates == Range(ScaleCandidates)
          IN /\ result \in candidates
             /\ (ValidDuration(durationS) /\ times # {}) =>
                   LET m == MaxOf(times)
                       least == {c \in candidates :
                                    \A other \in candidates :
                                        ScaleDiff(m, c, durationS.v)
                                            <= ScaleDiff(m, other, durationS.v)}
                   IN IF \E c \in least : ScaleDiff(m, c, durationS.v) <= 250 * durationS.v
                      THEN result \in least
                      ELSE result = Scale(1, 1)
             /\ (~ValidDuration(durationS) /\ times # {}) =>
                   result = (IF MaxOf(times) > Ms(1000 * 1000) THEN Scale(1, 1000)
                             ELSE Scale(1, 1))

\* normalizeTimings ran on a maximum of 1530 with a duration of 153: the
\* inferred scale is 0.1 and the line ends at 153 s
C13_Witness ==
    /\ NormalizeDone
    /\ durationS = Num(Ms(153 * 1000))
    /\ FiniteTimes(baseTimings) = {Ms(1530 * 1000)}
    /\ InferredScale = Scale(1, 10)
    /\ normalized[1].end_s = Ms(153 * 1000)

----------------------------------------------------------------------------
(* Properties of the choice between the candidates *)

\* validCount / total >= 0.7 and monotonicBreaks <= 1
StatedLooksGood(score, total) ==
    10 * score.validCount >= 7 * total /\ score.monotonicBreaks <= 1

\* the rule as stated, on the two scores; the ratios share the denominator total
StatedSource(wordScore, lineScore, total) ==
    IF StatedLooksGood(wordScore, total)
       /\ wordScore.monotonicBreaks <= lineScore.monotonicBreaks
    THEN "words"
    ELSE IF StatedLooksGood(lineScore, total)
            \/ lineScore.validCount >= wordScore.validCount
    THEN "lines"
    ELSE "words"

Selected == pc # "aligned" /\ aligned_lyrics # <<>>

\* C14: chooseTimingSource selects what the stated rule selects: the token-derived
\* candidate if it looks good and has no more breaks than the line candidate,
\* otherwise the line candidate if it looks good or its valid ratio is at least
\* the token candidate's, otherwise the token candidate
C14_ChoiceAsStated ==
    Selected =>
        LET wordTimings == deriveTimingsFromWords(aligned_lyrics)
            lineTimings == deriveTimingsFromLines(aligned_lyrics)
            stated == StatedSource(scoreTimings(wordTimings), scoreTimings(lineTimings),
                                   Max2(Len(wordTimings), 1))
        IN /\ timingSource = stated
           /\ chosen = (IF stated = "words" THEN wordTimings ELSE lineTimings)

\* both candidates look good, the token-derived one has a break the line
\* candidate has not, and the line candidate was chosen
C14_Witness ==
    /\ Selected
    /\ timingSource = "lines"
    /\ scoreTimings(deriveTimingsFromWords(aligned_lyrics))
          = [validCount |-> 3, monotonicBreaks |-> 1]
    /\ scoreTimings(deriveTimingsFromLines(aligned_lyrics))
          = [validCount |-> 3, monotonicBreaks |-> 0]

----------------------------------------------------------------------------
(* Properties of the detection of relative timing *)

Expanded == pc \in {"base", "normalized", "repaired"}

EndsOf(ls) == {ls[i].end_s.v : i \in {j \in DOMAIN ls : IsFiniteNumber(ls[j].end_s)}}
StartsOf(ls) == [i \in {j \in DOMAIN ls : IsFiniteNumber(ls[j].start_s)} |-> ls[i].start_s.v]

\* (a): the duration is known and above 10 s and the maximum end is below
\* min(5 s, 20% of the duration)
ShortAgainstDuration(ls, d) ==
    /\ IsFiniteNumber(d) /\ d.v > Ms(10000)
    /\ EndsOf(ls) # {}
    /\ MaxOf(EndsOf(ls)) < Ms(5000) /\ 5 * MaxOf(EndsOf(ls)) < d.v

\* (b): at least 80% of the starts are at most 0.001 s and there is a monotonic
\* break or there are fewer than 3 distinct starts
MostlyZeroStarts(ls) ==
    LET starts == StartsOf(ls)
    IN /\ DOMAIN starts # {}
       /\ 5 * Cardinality({i \in DOMAIN starts : starts[i] <= Ms(1)})
             >= 4 * Cardinality(DOMAIN starts)
       /\ \/ scoreTimings(ls).monotonicBreaks > 0
          \/ Cardinality({roundToMillis(starts[i]) : i \in DOMAIN starts}) < 3

\* C15 as stated: looksLikeRelativeLineTimings is true exactly when (a) or (b)
\* holds; (a) alone suffices for a sequence that has end times, whether or not
\* any line has a start
C15_RelativeExactlyWhenStated ==
    Expanded => (relative <=> (ShortAgainstDuration(chosen, durationS) \/ MostlyZeroStarts(chosen)))

----------------------------------------------------------------------------
(* Properties of the uniform expansion *)

UniformlyExpanded == Expanded /\ relativeMethod = "linear" /\ chosen # <<>>

BackToBackFromZero(ls) ==
    /\ ls[1].start_s = Num(0)
    /\ \A i \in 1..(Len(ls) - 1) : ls[i].end_s = ls[i + 1].start_s
    /\ \A i \in DOMAIN ls : IsFiniteNumber(ls[i].end_s) /\ ls[i].end_s.v > ls[i].start_s.v

\* C16 as stated: the uniform expansion of a non-empty sequence starts at 0, is
\* back-to-back with every line of positive length, ends at the duration when the
\* duration is known, and uses the weights unscaled when it is unknown
C16_UniformExpansionBackToBack ==
    UniformlyExpanded =>
        /\ Len(baseTimings) = Len(chosen)
        /\ BackToBackFromZero(baseTimings)
        /\ IsFiniteNumber(durationS) => baseTimings[Len(baseTimings)].end_s = durationS
        /\ ~IsFiniteNumber(durationS) =>
               \A i \in DOMAIN baseTimings :
                   baseTimings[i].end_s.v - baseTimings[i].start_s.v
                       = extractRelativeDurations(chosen)[i]

----------------------------------------------------------------------------
(* Properties of the order of the stages *)

\* C17 as stated: normalization is the last stage applied, so the sequence that
\* is committed is the direct output of the normalizer and no stage modifies it
\* afterwards
C17_CommittedIsNormalizerOutput ==
    pc = "repaired" => repaired.lines = normalized

----------------------------------------------------------------------------
(* Properties of concurrent invocations of processPage *)

\* the invocation's fetchLyrics call missed the cache and issued the
\* aligned_lyrics request
IssuedAlignedRequest(rec) ==
    \/ rec.pc \in {"awaitAligned", "awaitClipDuration", "awaitClipRepair", "awaitClipFallback"}
    \/ rec.pc = "resume" /\ ~(rec.stored = "none" /\ rec.lyrics.type # "null")

\* the invocation's fetchLyrics call executed buildAlignedLyricsTimings
RanPipeline(rec) ==
    /\ rec.pc \in {"awaitClipRepair", "awaitClipFallback", "resume"}
    /\ rec.aligned # 0
    /\ Len(AlignedPayloads[rec.aligned].aligned_lyrics) > 0

\* C18 as stated: for any interleaving of processPage invocations on the same
\* track the aligned_lyrics request is issued at most once and
\* buildAlignedLyricsTimings is executed at most once
C18_PipelineOncePerTrack ==
    \A i, j \in Invocations :
        i # j /\ inv[i].songId = inv[j].songId =>
            /\ ~(IssuedAlignedRequest(inv[i]) /\ IssuedAlignedRequest(inv[j]))
            /\ ~(RanPipeline(inv[i]) /\ RanPipeline(inv[j]))


\* C19 as stated: an overlay is never injected for a track identifier other than
\* the page's at the moment of injection
C19_NoStaleOverlay ==
    [][\A p \in Parents :
          overlays'[p] # overlays[p] /\ overlays'[p] # <<>> =>
              overlays'[p][1].songId = url]_vars

----------------------------------------------------------------------------
(* Properties of lyricsCache *)

\* C20 as stated: the cache holds, per track identifier, only the final
\* LineTiming sequence of that track, and an entry once written is never evicted
C20_CacheHoldsOnlyFinalTimings ==
    /\ [](\A s \in Songs : lyricsCache[s].type \in {"none", "aligned"})
    /\ [][\A s \in Songs : lyricsCache[s].type # "none" => lyricsCache'[s].type # "none"]_vars

----------------------------------------------------------------------------
(* Properties of the injection of overlays *)

\* parent p receives an overlay in this step
Injected(p) == overlays'[p] # overlays[p] /\ overlays'[p] # <<>>

\* C21: an overlay is injected only by an invocation that read a song id from the
\* URL, found the session cookie and got lyrics of type 'aligned' from fetchLyrics
\* for that song id; the overlay carries that song id and those lyrics
C21_OverlayOnlyForAligned ==
    /\ [](\A p \in Parents :
             overlays[p] # <<>> =>
                 /\ session
                 /\ overlays[p][1].songId # ""
                 /\ overlays[p][1].lyrics.type = "aligned")
    /\ [][\A p \in Parents :
             Injected(p) =>
                 \E i \in Invocations :
                     /\ inv[i].pc = "resume" /\ inv'[i].pc = "done"
                     /\ inv[i].lyrics.type = "aligned"
                     /\ overlays'[p] = <<Overlay(inv[i].songId, inv[i].lyrics)>>]_vars

\* an overlay has been injected for one track while a 'plain' entry is cached for
\* the other track and the invocation on it has returned without an overlay
C21_Witness ==
    /\ \E p \in Parents : overlays[p] # <<>>
    /\ \E s \in Songs : lyricsCache[s].type = "plain"
    /\ \E i \in Invocations : inv[i].pc = "done" /\ inv[i].stored = "plain" /\ inv[i].injected = 0

----------------------------------------------------------------------------
(* Properties of the synthesized lines *)

LinesInserted == pc = "repaired" /\ repaired.insertedCount > 0

\* the rebuilding loop of the repair of the normalized lines, before it handles
\* the resolved line at position index
RebuiltBefore(index) ==
    RepairLoop(SubSeq(AlignedStarts(normalized), 1, index - 1),
               matchedPromptIndexes(normalized, prompt), parsePromptLines(prompt),
               estimateSecondsPerLyricUnit(normalized), 1,
               [rebuiltStarts |-> <<>>, previousMatchedPrompt |-> -1, insertedCount |-> 0])

\* the entries synthesized in front of the resolved line at position index
SynthesizedBefore(index) ==
    LET before == RebuiltBefore(index).rebuiltStarts
        after == RebuiltBefore(index + 1).rebuiltStarts
    IN SubSeq(after, Len(before) + 1, Len(after) - 1)

\* the start of the gap window in front of the resolved line at position index:
\* for the leading gap the lead window, for an interior gap the previous
\* resolved line's start
GapWindowStart(index) ==
    LET matched == matchedPromptIndexes(normalized, prompt)
        line == AlignedStarts(normalized)[index]
        missingCount == Len(MissingLeading(parsePromptLines(prompt), line, matched[index]))
    IN IF index = FirstMatchedLineIndex(matched)
       THEN Max2(0, line.start_s - Max2(Ms(1200), missingCount * Ms(900)))
       ELSE normalized[index - 1].start_s

\* C22 as stated: every synthesized line's start lies inside its gap window, for
\* any number of missing lines and any window size
C22_SynthesizedInsideWindow ==
    LinesInserted =>
        \A index \in DOMAIN normalized :
            LET synthesized == SynthesizedBefore(index)
            IN \A k \in DOMAIN synthesized :
                   /\ synthesized[k].start_s >= GapWindowStart(index)
                   /\ synthesized[k].start_s <= normalized[index].start_s


\* the missing reference lines of the gap in front of the resolved line at
\* position index
MissingBefore(index) ==
    LET matched == matchedPromptIndexes(normalized, prompt)
        line == AlignedStarts(normalized)[index]
        before == RebuiltBefore(index)
    IN IF index = FirstMatchedLineIndex(matched)
       THEN IF matched[index] > 0
            THEN MissingLeading(parsePromptLines(prompt), line, matched[index])
            ELSE <<>>
       ELSE IF matched[index] >= 0 /\ before.previousMatchedPrompt >= 0
               /\ matched[index] - before.previousMatchedPrompt > 1
       THEN MissingInterior(parsePromptLines(prompt), line, before.rebuiltStarts,
                            before.previousMatchedPrompt, matched[index])
       ELSE <<>>

\* the resolved line at position index has a gap in front of it and the gap's
\* window is at most 0.18 s wide
NarrowWindow(index) ==
    /\ MissingBefore(index) # <<>>
    /\ normalized[index].start_s - GapWindowStart(index) <= minimumDuration

\* C23 as stated: when a gap's window is at most 0.18 s wide, each of the gap's
\* missing lines is inserted with start max(0, windowEnd - 0.18) and none of them
\* is omitted
C23_NarrowWindowCollapsesAll ==
    LinesInserted =>
        \A index \in DOMAIN normalized :
            NarrowWindow(index) =>
                LET synthesized == SynthesizedBefore(index)
                    missing == MissingBefore(index)
                IN /\ Len(synthesized) = Len(missing)
                   /\ \A k \in DOMAIN synthesized :
                          /\ synthesized[k].text = missing[k]
                          /\ synthesized[k].start_s
                                 = Max2(0, normalized[index].start_s - minimumDuration)

----------------------------------------------------------------------------
(* Properties of the envelope-guided expansion *)

EnvelopeGuided == Expanded /\ relativeMethod = "waveform"

\* the smoothed envelope and the window of activity detected in it
SmoothedEnvelope ==
    smoothSeries([i \in DOMAIN waveformData.samples |-> Max2(waveformData.samples[i], 0)], 2)

DetectedWindow ==
    LET positive == SelectSeq(SmoothedEnvelope, LAMBDA value : value > 0)
    IN ActivityWindow(SmoothedEnvelope, percentile(positive, 4), percentile(positive, 17),
                      durationS.v)

WindowStartTime == MulDiv(DetectedWindow.startIndex, durationS.v, DetectedWindow.totalBuckets)
WindowEndTime == MulDiv(DetectedWindow.endIndex, durationS.v, DetectedWindow.totalBuckets)

\* C24 as stated: whenever the envelope-guided expansion is used, every start and
\* end lies within the detected window, consecutive starts are at least 20 ms
\* apart and every end is at least 20 ms after its start
C24_EnvelopeTimelineFitsWindow ==
    EnvelopeGuided =>
        /\ \A i \in DOMAIN baseTimings :
              /\ baseTimings[i].start_s.v >= WindowStartTime
              /\ baseTimings[i].end_s.v <= WindowEndTime
              /\ baseTimings[i].end_s.v >= baseTimings[i].start_s.v + minStep
        /\ \A i \in 1..(Len(baseTimings) - 1) :
              baseTimings[i + 1].start_s.v >= baseTimings[i].start_s.v + minStep


\* alignRelativeTimingsWithWaveform has been called: the lines look relative and
\* the duration is known and positive
EnvelopeConsulted ==
    Expanded /\ relative /\ IsFiniteNumber(durationS) /\ durationS.v > 0

\* the envelope has fewer than 2 samples, or no usable activity, or the detected
\* window, margins included, spans fewer than 8 samples
WindowTooShort ==
    \/ ~waveformData.present
    \/ Len(waveformData.samples) < 2
    \/ Len(SelectSeq(SmoothedEnvelope, LAMBDA value : value > 0)) < 2
    \/ ~DetectedWindow.found
    \/ DetectedWindow.endIndex - DetectedWindow.startIndex < 8

\* C25: the envelope-guided expansion aborts to the uniform expansion whenever the
\* detected window spans fewer than 8 samples, the envelope has fewer than 2
\* samples or there is no usable activity: the result is
\* expandRelativeTimings(lines, duration) and usedWaveform is false
C25_ShortWindowAbortsToUniform ==
    EnvelopeConsulted /\ WindowTooShort =>
        /\ relativeMethod = "linear"
        /\ baseTimings = expandRelativeTimings(chosen, durationS)

\* an envelope with activity whose window spans 6 samples came with two lines of
\* 1.5 s each, and the expansion was uniform
C25_Witness ==
    /\ EnvelopeConsulted
    /\ Len(chosen) = 2 /\ \A i \in DOMAIN chosen : chosen[i].end_s = Num(Ms(1500))
    /\ waveformData.present
    /\ Len(SelectSeq(SmoothedEnvelope, LAMBDA value : value > 0)) >= 2
    /\ DetectedWindow.endIndex - DetectedWindow.startIndex = 5
    /\ relativeMethod = "linear"
    /\ baseTimings[2].end_s = durationS

----------------------------------------------------------------------------
(* Properties of the overlays of one parent *)

\* C26: under any interleaving of processPage invocations every cover's parent
\* holds at most one overlay
C26_AtMostOneOverlay ==
    \A p \in Parents : Len(overlays[p]) <= 1

\* an invocation resumes with aligned lyrics for a cover whose parent received
\* its overlay from another invocation while this one was waiting
C26_Witness ==
    \E i, j \in Invocations :
        /\ i # j
        /\ inv[i].pc = "done" /\ inv[i].injected > 0
        /\ inv[j].pc = "resume" /\ inv[j].lyrics.type = "aligned"
        /\ inv[j].stored = "aligned"
        /\ \E p \in inv[j].imageElements : Len(overlays[p]) = 1

----------------------------------------------------------------------------
(* Properties of the debounced trigger *)

\* the debounced calls and the runs they led to, in order
Debounced == SelectSeq(events, LAMBDA e : e.kind # "manual")

\* at most one timeout is pending; one is pending exactly when the last
\* debounced call has not led to a run yet, and it is the one set by that call
OnePendingTimer ==
    /\ Cardinality(timers) <= 1
    /\ timers # {} <=> (Debounced # <<>> /\ Debounced[Len(Debounced)].kind = "call")
    /\ timers # {} =>
           timers = {[id |-> timeout, due |-> Debounced[Len(Debounced)].at + DebounceWait]}

\* every run follows a call, with no other run in between, by at least 500 ms
RunsFollowQuietCalls ==
    \A k \in DOMAIN Debounced :
        Debounced[k].kind = "run" =>
            /\ k > 1
            /\ Debounced[k - 1].kind = "call"
            /\ Debounced[k].at >= Debounced[k - 1].at + DebounceWait

\* no run lies between two calls that are less than 500 ms apart
NoRunInsideBurst ==
    \A k \in 1..(Len(Debounced) - 2) :
        ~(/\ Debounced[k].kind = "call"
          /\ Debounced[k + 1].kind = "run"
          /\ Debounced[k + 2].kind = "call"
          /\ Debounced[k + 2].at < Debounced[k].at + DebounceWait)

\* a MANUALLY_TRIGGER message is being handled in this step
ManualRun ==
    /\ Len(events') = Len(events) + 1
    /\ events'[Len(events')] = Event("manual", now)

\* C27: the debounced trigger keeps at most one pending timer; a burst of calls
\* less than 500 ms apart leads to exactly one processPage run, not before 500 ms
\* have passed since the last call; a MANUALLY_TRIGGER message runs processPage
\* at once and leaves the pending timer as it is
C27_DebounceOneRunPerBurst ==
    /\ [](OnePendingTimer /\ RunsFollowQuietCalls /\ NoRunInsideBurst)
    /\ [][ManualRun => timers' = timers /\ timeout' = timeout]_vars
    /\ (timers # {}) ~> (timers = {})

\* two calls 250 ms apart with a manual trigger between them have led to one run,
\* 500 ms after the second call
C27_Witness ==
    /\ Len(events) = 4
    /\ events[1].kind = "call"
    /\ events[2].kind = "manual"
    /\ events[3] = Event("call", events[1].at + TimeStep)
    /\ events[4] = Event("run", events[3].at + DebounceWait)
    /\ timers = {}

----------------------------------------------------------------------------
(* Properties of the overlay's buttons *)

OtherFileType(type) == IF type = "lrc" THEN "srt" ELSE "lrc"

\* the labels name the current format and the other one
LabelsNameFormats ==
    toolsBox.created =>
        /\ toolsBox.currentFileType \in {"lrc", "srt"}
        /\ toolsBox.downloadButton.format = FormatName(toolsBox.currentFileType)
        /\ toolsBox.toggleButton.format = FormatName(OtherFileType(toolsBox.currentFileType))
        /\ toolsBox.downloadButton.format # toolsBox.toggleButton.format

\* extension, MIME type and converter of a file are those of one format, and the
\* file is made from the overlay's song id and lyrics
FileOfOneFormat(file) ==
    /\ file.fileName.extension \in {"lrc", "srt"}
    /\ file.fileName.songId = toolsBox.songId
    /\ file.mimeType = <<"text", file.fileName.extension>>
    /\ file.fileName.extension = "srt" => file.content = convertToSRT(toolsBox.data)
    /\ file.fileName.extension = "lrc" => file.content = convertToLRC(toolsBox.data)
    /\ convertToSRT(toolsBox.data) # convertToLRC(toolsBox.data)

\* C28: the format starts at 'lrc' and every toggle click flips it; the download
\* label names the current format and the toggle label the other one; a download
\* click hands over a file whose extension, MIME type and converter are those of
\* the current format and changes neither the format nor the lyrics
C28_FormatStateAndDownloads ==
    /\ [](LabelsNameFormats /\ \A k \in DOMAIN downloads : FileOfOneFormat(downloads[k]))
    /\ [][~toolsBox.created /\ toolsBox'.created => toolsBox'.currentFileType = "lrc"]_vars
    /\ [][toolsBox.created /\ toolsBox' # toolsBox =>
             /\ toolsBox'.currentFileType = OtherFileType(toolsBox.currentFileType)
             /\ toolsBox'.data = toolsBox.data /\ toolsBox'.songId = toolsBox.songId
             /\ downloads' = downloads]_vars
    /\ [][downloads' # downloads =>
             /\ toolsBox' = toolsBox
             /\ Len(downloads') = Len(downloads) + 1
             /\ SubSeq(downloads', 1, Len(downloads)) = downloads
             /\ downloads'[Len(downloads')].fileName.extension = toolsBox.currentFileType]_vars

\* an overlay with two lines has delivered an LRC file, an SRT file and an LRC
\* file again, and its format is 'srt' now
C28_Witness ==
    /\ toolsBox.created /\ Len(toolsBox.data) = 2
    /\ Len(downloads) = 3
    /\ downloads[1].fileName.extension = "lrc"
    /\ downloads[2].fileName.extension = "srt"
    /\ downloads[3].fileName.extension = "lrc"
    /\ toolsBox.currentFileType = "srt"

----------------------------------------------------------------------------
(* Properties of lyricsCache and failed lookups *)

AwaitingRequest == {"awaitAligned", "awaitClipDuration", "awaitClipRepair", "awaitClipFallback"}

\* the fetchLyrics call of invocation i returns in this step
FetchReturns(i) == inv[i].pc \in AwaitingRequest \cup {"idle"} /\ inv'[i].pc = "resume"

\* invocation i calls fetchLyrics in this step
FetchCalled(i) == inv[i].pc = "idle" /\ inv'[i].pc \in AwaitingRequest \cup {"resume"}

\* C29: a fetchLyrics call that returns null leaves lyricsCache unchanged; an
\* entry is written only in the step in which a call returns a non-null result,
\* and it is that result under the call's song id; a call that finds an entry
\* returns it at once without a request, and a call that finds none issues the
\* aligned_lyrics request
C29_FailedLookupNotCached ==
    /\ [][\A i \in Invocations :
             FetchReturns(i) /\ inv'[i].lyrics.type = "null" => lyricsCache' = lyricsCache]_vars
    /\ [][lyricsCache' # lyricsCache =>
             \E i \in Invocations :
                 /\ FetchReturns(i)
                 /\ inv[i].pc \in AwaitingRequest
                 /\ inv'[i].lyrics.type \in {"aligned", "plain"}
                 /\ lyricsCache' = [lyricsCache EXCEPT ![inv[i].songId] = inv'[i].lyrics]]_vars
    /\ [][\A i \in Invocations :
             FetchCalled(i) =>
                 IF lyricsCache[inv'[i].songId].type # "none"
                 THEN /\ inv'[i].pc = "resume"
                      /\ inv'[i].lyrics = lyricsCache[inv'[i].songId]
                      /\ lyricsCache' = lyricsCache
                 ELSE inv'[i].pc = "awaitAligned"]_vars
    /\ [](\A s \in Songs : lyricsCache[s].type \in {"none", "aligned", "plain"})

\* an invocation whose aligned_lyrics request was answered has returned without
\* writing an entry, no track has an entry, and a later invocation has issued the
\* aligned_lyrics request
C29_Witness ==
    /\ inv[1].pc = "done" /\ inv[1].aligned # 0 /\ inv[1].stored = "none"
    /\ \A s \in Songs : lyricsCache[s] = NoEntry
    /\ inv[2].pc = "awaitAligned"

----------------------------------------------------------------------------
(* Properties of the repair matcher *)

\* repairMissingPromptLines got past its guards and matched the normalized lines
\* against the reference lines
MatcherRan ==
    /\ pc = "repaired"
    /\ ~PromptFalsy(prompt) /\ Len(normalized) >= 2
    /\ Len(parsePromptLines(prompt)) > 0

\* C30: among the matched lines the reference indices are strictly increasing in
\* line order, so that no reference line is matched twice; every index is -1 or
\* the index of a reference line; a line whose normalized text is empty is not
\* matched
C30_MatchedIndicesIncrease ==
    MatcherRan =>
        /\ \A i \in DOMAIN Matched : Matched[i] \in -1..(Len(parsePromptLines(prompt)) - 1)
        /\ \A i, j \in DOMAIN Matched :
              i < j /\ Matched[i] >= 0 /\ Matched[j] >= 0 => Matched[i] < Matched[j]
        /\ \A i \in DOMAIN Matched :
              normalizeLyricForMatch(sanitizeLyricText(normalized[i].text)) = <<>> =>
                  Matched[i] = -1

\* two lines with the same normalized text are both matched, the second one to a
\* later reference line that is not the next one
C30_Witness ==
    /\ MatcherRan
    /\ \E i, j \in DOMAIN Matched :
          /\ i < j /\ Matched[i] >= 0 /\ Matched[j] > Matched[i] + 1
          /\ normalizeLyricForMatch(sanitizeLyricText(normalized[i].text))
                 = normalizeLyricForMatch(sanitizeLyricText(normalized[j].text))
====
